---------------------------- MODULE Spec2Model ----------------------------
(***************************************************************************)
(* Texture matching and UDIM sequence detection of the Houdini FBX loader. *)
(*                                                                         *)
(* Strings are sequences of one-character strings, so that substring       *)
(* tests, lower-casing, regular-expression matching and path handling are  *)
(* computed character by character, as the Python code computes them.      *)
(* Dictionaries are sequences of entries in insertion order (Python dicts  *)
(* iterate in insertion order); found_textures, which is only looked up by  *)
(* key, is a function from channel names to paths.  Paths are handled as    *)
(* posixpath handles them (separator "/").                                  *)
(***************************************************************************)
EXTENDS Integers, Sequences, FiniteSets, TLC

VARIABLES
    texture_files,     \* argument: list of texture file paths
    files_is_none,     \* the caller passed texture_files=None (texture_files is then <<>>)
    material_name,     \* argument of find_matching_textures
    model_basename,    \* argument of find_matching_textures
    texture_keywords,  \* argument: keyword table (ordered dict channel -> keywords)
    pc,                \* position of the running call
    path,              \* which implementation find_matching_textures dispatched to
    candidates,        \* all_texture_candidates / the files the passes iterate over
    idx,               \* index of the next loop iteration
    found_textures,    \* the mapping under construction / returned
    udim_groups,       \* detect_udim_sequences: udim_groups
    single_textures,   \* detect_udim_sequences: single_textures
    udim_sequences,    \* detect_udim_sequences: udim_sequences
    enabled,           \* CacheManager.enabled
    lock,              \* CacheManager._lock: the thread holding it, or "free"
    frames,            \* per thread: its stack of CacheManager method calls
    calls,             \* per thread: the calls it has made
    materials_cache,   \* CacheManager.materials_cache (its keys)
    node_names_cache,  \* CacheManager.node_names_cache (its keys)
    textures_cache,    \* CacheManager.textures_cache (its keys; its entries
                       \* [key, textures] where the texture cache is followed)
    cache_files,       \* per cache file: the keys saved in it
    node_name,         \* clean_node_name: its argument name
    cleaned_name       \* clean_node_name: cleaned_name

cache_vars == <<enabled, lock, frames, calls, materials_cache, node_names_cache,
                textures_cache, cache_files>>

match_vars == <<texture_files, files_is_none, material_name, model_basename,
                texture_keywords, pc, path, candidates, idx, found_textures,
                udim_groups, single_textures, udim_sequences>>

clean_vars == <<node_name, cleaned_name>>

vars == <<match_vars, cache_vars, clean_vars>>

-----------------------------------------------------------------------------
(* Bounds of the model *)

\* longest list of texture files drawn for a call (before padding)
MaxFiles == 3

\* calls of CacheManager methods a thread makes
MaxCalls == 2

-----------------------------------------------------------------------------
(* Python string primitives *)

EmptyStr == <<>>

UpperToLower ==
    [A |-> "a", B |-> "b", C |-> "c", D |-> "d", E |-> "e", F |-> "f", G |-> "g",
     H |-> "h", I |-> "i", J |-> "j", K |-> "k", L |-> "l", M |-> "m", N |-> "n",
     O |-> "o", P |-> "p", Q |-> "q", R |-> "r", S |-> "s", T |-> "t", U |-> "u",
     V |-> "v", W |-> "w", X |-> "x", Y |-> "y", Z |-> "z"]

\* str.lower()
lower(s) ==
    [i \in 1..Len(s) |-> IF s[i] \in DOMAIN UpperToLower THEN UpperToLower[s[i]] ELSE s[i]]

\* str.replace(" ", "_")
replace_space(s) == [i \in 1..Len(s) |-> IF s[i] = " " THEN "_" ELSE s[i]]

\* `k in s' for strings
Contains(s, k) ==
    \E i \in 1..(Len(s) - Len(k) + 1) : SubSeq(s, i, i + Len(k) - 1) = k

\* index of the last occurrence of character c in s, 0 when there is none
LastIndexOf(s, c) ==
    LET hits == {i \in 1..Len(s) : s[i] = c}
    IN  IF hits = {} THEN 0 ELSE CHOOSE i \in hits : \A j \in hits : j <= i

DigitValue == [c \in {"0","1","2","3","4","5","6","7","8","9"} |->
    CASE c = "0" -> 0 [] c = "1" -> 1 [] c = "2" -> 2 [] c = "3" -> 3 [] c = "4" -> 4
      [] c = "5" -> 5 [] c = "6" -> 6 [] c = "7" -> 7 [] c = "8" -> 8 [] c = "9" -> 9]

IsDigit(c) == c \in DOMAIN DigitValue

\* int() of a string of four digits
int4(d) == 1000 * DigitValue[d[1]] + 100 * DigitValue[d[2]]
           + 10 * DigitValue[d[3]] + DigitValue[d[4]]

\* os.path.basename (posix)
basename(p) == SubSeq(p, LastIndexOf(p, "/") + 1, Len(p))

RECURSIVE rstrip_slash(_)
rstrip_slash(s) ==
    IF Len(s) > 0 /\ s[Len(s)] = "/" THEN rstrip_slash(SubSeq(s, 1, Len(s) - 1)) ELSE s

\* os.path.dirname (posix): the head up to the last slash, trailing slashes
\* stripped unless the head consists of slashes only
dirname(p) ==
    LET head == SubSeq(p, 1, LastIndexOf(p, "/"))
    IN  IF rstrip_slash(head) = <<>> THEN head ELSE rstrip_slash(head)

\* os.path.join(a, b) (posix)
path_join(a, b) ==
    IF Len(b) > 0 /\ b[1] = "/" THEN b
    ELSE IF a = <<>> \/ a[Len(a)] = "/" THEN a \o b
    ELSE a \o <<"/">> \o b

\* the components of p between slashes, from position i on
RECURSIVE split_slash(_, _, _)
split_slash(p, i, cur) ==
    IF i > Len(p) THEN <<cur>>
    ELSE IF p[i] = "/" THEN <<cur>> \o split_slash(p, i + 1, <<>>)
    ELSE split_slash(p, i + 1, Append(cur, p[i]))

RECURSIVE join_slash(_)
join_slash(comps) ==
    IF Len(comps) = 0 THEN <<>>
    ELSE IF Len(comps) = 1 THEN comps[1]
    ELSE comps[1] \o <<"/">> \o join_slash(Tail(comps))

\* os.path.normpath (posix) followed by .replace(os.sep, "/"): empty and "."
\* components are dropped, ".." removes the component before it
RECURSIVE norm_comps(_, _, _)
norm_comps(comps, acc, rooted) ==
    IF Len(comps) = 0 THEN acc
    ELSE LET c == Head(comps) IN
         IF c = <<>> \/ c = <<".">> THEN norm_comps(Tail(comps), acc, rooted)
         ELSE IF c = <<".", ".">> THEN
              IF Len(acc) > 0 /\ acc[Len(acc)] # <<".", ".">>
                 THEN norm_comps(Tail(comps), SubSeq(acc, 1, Len(acc) - 1), rooted)
              ELSE IF rooted THEN norm_comps(Tail(comps), acc, rooted)
              ELSE norm_comps(Tail(comps), Append(acc, c), rooted)
         ELSE norm_comps(Tail(comps), Append(acc, c), rooted)

normpath(p) ==
    IF p = <<>> THEN <<".">>
    ELSE LET rooted == p[1] = "/"
             body   == join_slash(norm_comps(split_slash(p, 1, <<>>), <<>>, rooted))
         IN  IF rooted THEN <<"/">> \o body
             ELSE IF body = <<>> THEN <<".">> ELSE body

\* os.path.splitext(p)[0]: cut at the last dot of the last component unless
\* only dots precede it there
splitext_root(p) ==
    LET dot   == LastIndexOf(p, ".")
        start == LastIndexOf(p, "/") + 1
    IN  IF dot >= start /\ \E i \in start..(dot - 1) : p[i] # "."
        THEN SubSeq(p, 1, dot - 1) ELSE p

IsNameSep(c) == c \in {"_", "-", ".", " "}

\* re.split(r"[_\-\s.]+", s)
RECURSIVE re_split_parts(_, _, _, _)
re_split_parts(s, i, cur, insep) ==
    IF i > Len(s) THEN <<cur>>
    ELSE IF IsNameSep(s[i]) THEN
         IF insep THEN re_split_parts(s, i + 1, cur, TRUE)
         ELSE <<cur>> \o re_split_parts(s, i + 1, <<>>, TRUE)
    ELSE re_split_parts(s, i + 1, Append(cur, s[i]), FALSE)

\* the elements of a sequence
Range(s) == {s[i] : i \in 1..Len(s)}

-----------------------------------------------------------------------------
(* UDIM_CONFIG (constants.py) *)

\* the extensions of UDIM_CONFIG["pattern"]
UDIM_EXTENSIONS ==
    { <<"j","p","g">>, <<"j","p","e","g">>, <<"p","n","g">>, <<"t","g","a">>,
      <<"t","i","f">>, <<"t","i","f","f">>, <<"e","x","r">>, <<"h","d","r">>,
      <<"p","i","c">>, <<"r","a","t">> }

\* the separators UDIM_CONFIG["pattern"] accepts before the tile number: [._]
pattern_separators == {".", "_"}

\* UDIM_CONFIG["alternative_patterns"], each by the separator it accepts
alternative_patterns == << {"."}, {"_"}, {"-"} >>

range_start == 1001

\* UDIM_CONFIG["ranges"]["extended"]["end"]
ranges_extended_end == 1999

range_end == 1100

min_tiles == 2

placeholder == <<"<","U","D","I","M",">">>

NoMatch == [matched |-> FALSE, base_name |-> <<>>, udim |-> 0, extension |-> <<>>]

\* re.compile(r'^(.+)<sep>(\d{4})\.(jpg|...|rat)$', re.IGNORECASE).match(filename)
\* for the separator class seps: the groups (base name, tile number, extension)
regex_match(filename, seps) ==
    LET n   == Len(filename)
        dot == LastIndexOf(filename, ".")
    IN  IF /\ dot >= 7
           /\ lower(SubSeq(filename, dot + 1, n)) \in UDIM_EXTENSIONS
           /\ \A i \in (dot - 4)..(dot - 1) : IsDigit(filename[i])
           /\ filename[dot - 5] \in seps
        THEN [matched    |-> TRUE,
              base_name  |-> SubSeq(filename, 1, dot - 6),
              udim       |-> int4(SubSeq(filename, dot - 4, dot - 1)),
              extension  |-> SubSeq(filename, dot + 1, n)]
        ELSE NoMatch

\* udim_pattern.match(filename) with udim_pattern = UDIM_CONFIG["pattern"]
udim_pattern_match(filename) == regex_match(filename, pattern_separators)

\* constants.is_udim_filename
is_udim_filename(filename) ==
    /\ filename # <<>>
    /\ \/ udim_pattern_match(filename).matched
       \/ \E k \in 1..Len(alternative_patterns) :
              regex_match(filename, alternative_patterns[k]).matched

-----------------------------------------------------------------------------
(* detect_udim_sequences (udim_utils.py) *)

\* udim_groups[base_name].append(tile) on a defaultdict(list)
group_append(groups, base_name, tile) ==
    IF \E k \in 1..Len(groups) : groups[k].base_name = base_name
    THEN [k \in 1..Len(groups) |->
            IF groups[k].base_name = base_name
            THEN [groups[k] EXCEPT !.tiles = Append(@, tile)]
            ELSE groups[k]]
    ELSE Append(groups, [base_name |-> base_name, tiles |-> <<tile>>])

in_range(udim_number) == range_start <= udim_number /\ udim_number <= range_end

\* one iteration of the loop over texture_files
scan_file(groups, singles, texture_file) ==
    LET match == udim_pattern_match(basename(texture_file))
    IN  IF match.matched /\ in_range(match.udim)
        THEN [groups  |-> group_append(groups, match.base_name,
                             [file |-> texture_file, udim |-> match.udim,
                              extension |-> match.extension]),
              singles |-> singles]
        ELSE [groups |-> groups, singles |-> Append(singles, texture_file)]

\* list.sort(key=lambda x: x['udim']): stable
RECURSIVE insert_sorted(_, _)
insert_sorted(sorted, tile) ==
    IF Len(sorted) = 0 THEN <<tile>>
    ELSE IF sorted[Len(sorted)].udim <= tile.udim THEN Append(sorted, tile)
    ELSE Append(insert_sorted(SubSeq(sorted, 1, Len(sorted) - 1), tile),
                sorted[Len(sorted)])

\* tiles left in the order of the input list
sort_tiles_unsorted(tiles) == tiles

RECURSIVE sort_tiles(_)
sort_tiles(tiles) ==
    IF Len(tiles) = 0 THEN <<>>
    ELSE insert_sorted(sort_tiles(SubSeq(tiles, 1, Len(tiles) - 1)), tiles[Len(tiles)])

\* a pattern path that keeps the first tile's own path
udim_pattern_path_first_tile(base_name, tiles) == tiles[1].file

\* a pattern path that takes directory and extension from the last tile
udim_pattern_path_last_tile(base_name, tiles) ==
    LET last_tile == tiles[Len(tiles)]
        directory == dirname(last_tile.file)
    IN  normpath(path_join(directory,
            base_name \o <<".">> \o placeholder \o <<".">> \o last_tile.extension))

\* the pattern path of a group whose sorted tiles are tiles
udim_pattern_path(base_name, tiles) ==
    LET first_tile == tiles[1]
        directory  == dirname(first_tile.file)
    IN  normpath(path_join(directory,
            base_name \o <<".">> \o placeholder \o <<".">> \o first_tile.extension))

\* a group test that needs more than min_tiles tiles
build_group_strict(sequences, singles, group) ==
    IF Len(group.tiles) > min_tiles
    THEN LET tiles == sort_tiles(group.tiles)
         IN  [sequences |-> Append(sequences,
                  [base_name  |-> group.base_name,
                   pattern    |-> udim_pattern_path(group.base_name, tiles),
                   tiles      |-> [k \in 1..Len(tiles) |-> tiles[k].udim],
                   files      |-> [k \in 1..Len(tiles) |-> tiles[k].file],
                   tile_count |-> Len(tiles)]),
              singles |-> singles]
    ELSE [sequences |-> sequences,
          singles   |-> singles \o [k \in 1..Len(group.tiles) |-> group.tiles[k].file]]

\* a build loop that drops the groups below min_tiles instead of handing
\* their files to single_textures
build_group_drops_short(sequences, singles, group) ==
    IF Len(group.tiles) >= min_tiles
    THEN LET tiles == sort_tiles(group.tiles)
         IN  [sequences |-> Append(sequences,
                  [base_name  |-> group.base_name,
                   pattern    |-> udim_pattern_path(group.base_name, tiles),
                   tiles      |-> [k \in 1..Len(tiles) |-> tiles[k].udim],
                   files      |-> [k \in 1..Len(tiles) |-> tiles[k].file],
                   tile_count |-> Len(tiles)]),
              singles |-> singles]
    ELSE [sequences |-> sequences, singles |-> singles]

\* one iteration of the loop over udim_groups.items()
build_group(sequences, singles, group) ==
    IF Len(group.tiles) >= min_tiles
    THEN LET tiles == sort_tiles(group.tiles)
         IN  [sequences |-> Append(sequences,
                  [base_name  |-> group.base_name,
                   pattern    |-> udim_pattern_path(group.base_name, tiles),
                   tiles      |-> [k \in 1..Len(tiles) |-> tiles[k].udim],
                   files      |-> [k \in 1..Len(tiles) |-> tiles[k].file],
                   tile_count |-> Len(tiles)]),
              singles |-> singles]
    ELSE [sequences |-> sequences,
          singles   |-> singles \o [k \in 1..Len(group.tiles) |-> group.tiles[k].file]]

RECURSIVE scan_all(_, _, _, _)
scan_all(files, i, groups, singles) ==
    IF i > Len(files) THEN [groups |-> groups, singles |-> singles]
    ELSE LET r == scan_file(groups, singles, files[i])
         IN  scan_all(files, i + 1, r.groups, r.singles)

RECURSIVE build_all(_, _, _, _)
build_all(groups, i, sequences, singles) ==
    IF i > Len(groups) THEN [udim_sequences |-> sequences, single_textures |-> singles]
    ELSE LET r == build_group(sequences, singles, groups[i])
         IN  build_all(groups, i + 1, r.sequences, r.singles)

\* the whole call
detect_udim_sequences(files) ==
    LET scanned == scan_all(files, 1, <<>>, <<>>)
    IN  build_all(scanned.groups, 1, <<>>, scanned.singles)

\* is_udim_texture: UDIM_CONFIG['placeholder'] in texture_path
is_udim_texture(texture_path) == Contains(texture_path, placeholder)

\* validate_udim_sequence
validate_udim_sequence(files) ==
    /\ Len(files) >= min_tiles
    /\ \A i \in 1..Len(files) :
          LET match == udim_pattern_match(basename(files[i]))
          IN  match.matched /\ in_range(match.udim)
    /\ \A i, j \in 1..Len(files) :
          i # j => udim_pattern_match(basename(files[i])).udim
                   # udim_pattern_match(basename(files[j])).udim

-----------------------------------------------------------------------------
(* The callers of detect_udim_sequences: the file lists it is given *)

\* a.1001.jpg
a_dot_1001_jpg == <<"a",".","1","0","0","1",".","j","p","g">>

\* a.1002.jpg
a_dot_1002_jpg == <<"a",".","1","0","0","2",".","j","p","g">>

\* a_1001.jpg
a_us_1001_jpg == <<"a","_","1","0","0","1",".","j","p","g">>

\* d/a.1001.png
d_a_dot_1001_png == <<"d","/","a",".","1","0","0","1",".","p","n","g">>

\* a.1002.png
a_dot_1002_png == <<"a",".","1","0","0","2",".","p","n","g">>

\* a.1100.jpg
a_dot_1100_jpg == <<"a",".","1","1","0","0",".","j","p","g">>

\* a.1101.jpg
a_dot_1101_jpg == <<"a",".","1","1","0","1",".","j","p","g">>

\* a.1102.jpg
a_dot_1102_jpg == <<"a",".","1","1","0","2",".","j","p","g">>

\* a-1001.jpg
a_dash_1001_jpg == <<"a","-","1","0","0","1",".","j","p","g">>

\* a-1002.jpg
a_dash_1002_jpg == <<"a","-","1","0","0","2",".","j","p","g">>

\* b.jpg
b_jpg == <<"b",".","j","p","g">>

\* a.2020.jpg
a_dot_2020_jpg == <<"a",".","2","0","2","0",".","j","p","g">>

\* b_1003.JPG
b_us_1003_JPG == <<"b","_","1","0","0","3",".","J","P","G">>

\* .1001.jpg: a tile number and an extension without a base name
dot_1001_jpg ==
    <<".", "1", "0", "0", "1", ".", "j", "p", "g">>

DetectFiles ==
    { a_dot_1001_jpg, a_dot_1002_jpg, a_us_1001_jpg, d_a_dot_1001_png,
      a_dot_1002_png, a_dot_1101_jpg, a_dot_1102_jpg, a_dash_1001_jpg,
      a_dash_1002_jpg, b_jpg, a_dot_2020_jpg, b_us_1003_JPG, a_dot_1100_jpg,
      dot_1001_jpg, EmptyStr }

\* no element occurs twice in s
Distinct(s) == \A i, j \in 1..Len(s) : i # j => s[i] # s[j]

\* all lists of at most n elements of S
RECURSIVE SeqsUpTo(_, _)
SeqsUpTo(S, n) ==
    IF n = 0 THEN {<<>>}
    ELSE LET shorter == SeqsUpTo(S, n - 1)
         IN  shorter \cup {Append(s, x) : s \in {t \in shorter : Len(t) = n - 1}, x \in S}

\* texture_keywords=None, the default of the parameter
None == [none |-> TRUE, items |-> <<>>]

\* a keyword table passed by the caller
Table(items) == [none |-> FALSE, items |-> items]

\* sum(len(seq['tiles']) for seq in udim_sequences.values())
RECURSIVE sum_tiles(_)
sum_tiles(sequences) ==
    IF sequences = <<>> THEN 0
    ELSE Len(Head(sequences).tiles) + sum_tiles(Tail(sequences))

\* get_udim_statistics; udim_percentage is a float in the code and is kept
\* here as its integer part
get_udim_statistics(files) ==
    LET udim_analysis == detect_udim_sequences(files)
        total_udim_tiles == sum_tiles(udim_analysis.udim_sequences)
    IN  [udim_sequences  |-> Len(udim_analysis.udim_sequences),
         udim_tiles      |-> total_udim_tiles,
         single_textures |-> Len(udim_analysis.single_textures),
         total_files     |-> Len(files),
         udim_percentage |-> IF files # <<>>
                             THEN (total_udim_tiles * 100) \div Len(files)
                             ELSE 0]

\* the threads using one CacheManager
Threads == {"t1", "t2"}

\* the cache files of a CacheManager
CacheFiles == {"materials", "node_names", "textures"}

\* clean_node_name is not in a call
NoNameCleaned == node_name = <<>> /\ cleaned_name = <<>>

\* CacheManager.__init__ on a machine without cache files: the lock is
\* free, the three caches are loaded empty, no method has been called
InitCacheManager ==
    /\ lock = "free"
    /\ frames = [t \in Threads |-> <<>>]
    /\ calls = [t \in Threads |-> 0]
    /\ materials_cache = {}
    /\ node_names_cache = {}
    /\ textures_cache = {}
    /\ cache_files = [f \in CacheFiles |-> {}]

\* a caller (get_udim_statistics, print_udim_info, a test) calls
\* detect_udim_sequences(texture_files); no CacheManager method runs
InitDetect ==
    /\ enabled = FALSE
    /\ InitCacheManager
    /\ NoNameCleaned
    /\ texture_files \in SeqsUpTo(DetectFiles, MaxFiles)
    /\ files_is_none \in BOOLEAN
    /\ files_is_none => texture_files = <<>>
    /\ material_name = EmptyStr
    /\ model_basename = EmptyStr
    /\ texture_keywords = None
    /\ pc = "scan"
    /\ path = "detect"
    /\ candidates = <<>>
    /\ idx = 1
    /\ found_textures = <<>>
    /\ udim_groups = <<>>
    /\ single_textures = <<>>
    /\ udim_sequences = <<>>

call_unchanged ==
    UNCHANGED <<texture_files, files_is_none, material_name, model_basename,
                texture_keywords, path, cache_vars, clean_vars>>

\* a len() that accepts None
len_raises_never(is_none) == FALSE

\* len(texture_files) raises TypeError when texture_files is None
len_raises(is_none) == is_none

\* print(f"... {len(texture_files)} ...") before the scan: TypeError on None
DetectRaise ==
    /\ pc = "scan"
    /\ idx = 1
    /\ len_raises(files_is_none)
    /\ pc' = "TypeError"
    /\ UNCHANGED <<idx, candidates, found_textures, udim_groups, single_textures,
                   udim_sequences>>
    /\ call_unchanged

\* for texture_file in texture_files: ...  (one iteration)
DetectScan ==
    /\ pc = "scan"
    /\ ~len_raises(files_is_none)
    /\ idx <= Len(texture_files)
    /\ LET r == scan_file(udim_groups, single_textures, texture_files[idx])
       IN  /\ udim_groups' = r.groups
           /\ single_textures' = r.singles
    /\ idx' = idx + 1
    /\ UNCHANGED <<pc, candidates, found_textures, udim_sequences>>
    /\ call_unchanged

\* the loop over texture_files ends
DetectScanEnd ==
    /\ pc = "scan"
    /\ ~len_raises(files_is_none)
    /\ idx > Len(texture_files)
    /\ pc' = "build"
    /\ idx' = 1
    /\ UNCHANGED <<candidates, found_textures, udim_groups, single_textures, udim_sequences>>
    /\ call_unchanged

\* for base_name, tiles in udim_groups.items(): ...  (one iteration)
DetectBuild ==
    /\ pc = "build"
    /\ idx <= Len(udim_groups)
    /\ LET r == build_group(udim_sequences, single_textures, udim_groups[idx])
       IN  /\ udim_sequences' = r.sequences
           /\ single_textures' = r.singles
    /\ idx' = idx + 1
    /\ UNCHANGED <<pc, candidates, found_textures, udim_groups>>
    /\ call_unchanged

\* return {'udim_sequences': udim_sequences, 'single_textures': single_textures}
DetectReturn ==
    /\ pc = "build"
    /\ idx > Len(udim_groups)
    /\ pc' = "returned"
    /\ UNCHANGED <<idx, candidates, found_textures, udim_groups, single_textures, udim_sequences>>
    /\ call_unchanged

NextDetect ==
    DetectRaise \/ DetectScan \/ DetectScanEnd \/ DetectBuild \/ DetectReturn

SpecDetect == InitDetect /\ [][NextDetect]_vars

-----------------------------------------------------------------------------
(* Keyword tables and the inputs of find_matching_textures *)

\* ENHANCED_TEXTURE_KEYWORDS of material_utils.py, in dict order
ENHANCED_TEXTURE_KEYWORDS ==
    << [channel |-> "BaseMap", keywords |-> <<
         \* basemap diff dif diffuse albedo basecolor col color base alb bc _d ...
         <<"b","a","s","e","m","a","p">>, <<"d","i","f","f">>, <<"d","i","f">>,
         <<"d","i","f","f","u","s","e">>, <<"a","l","b","e","d","o">>,
         <<"b","a","s","e","c","o","l","o","r">>, <<"c","o","l">>, <<"c","o","l","o","r">>,
         <<"b","a","s","e">>, <<"a","l","b">>, <<"b","c">>, <<"_","d">>, <<"-","d">>,
         <<"_","c">>, <<"-","c">>, <<"d","i","f","f","m","a","p">>,
         <<"c","o","l","o","r","m","a","p">>, <<"d","i","f","f","u","s","e","m","a","p">>,
         <<"_","c","o","l","o","r">>, <<"_","b","a","s","e">>,
         <<"_","b","a","s","e","c","o","l","o","r">>, <<"_","a","l","b","e","d","o">>,
         <<"B","a","s","e","C","o","l","o","r">>, <<"A","l","b","e","d","o">>,
         <<"B","a","s","e","_","C","o","l","o","r">>, <<"B","a","s","e","M","a","p">>,
         <<"D","i","f","f","u","s","e","M","a","p">>, <<"C","o","l","o","r","M","a","p">>,
         <<"D","i","f","f","u","s","e">>, <<"C","o","l","o","r">>
       >>],
       [channel |-> "Normal", keywords |-> <<
         \* normal norm nml nrm _n -n nor normalmap normalmaps bump bumpmap _bump ...
         <<"n","o","r","m","a","l">>, <<"n","o","r","m">>, <<"n","m","l">>, <<"n","r","m">>,
         <<"_","n">>, <<"-","n">>, <<"n","o","r">>, <<"n","o","r","m","a","l","m","a","p">>,
         <<"n","o","r","m","a","l","m","a","p","s">>, <<"b","u","m","p">>,
         <<"b","u","m","p","m","a","p">>, <<"_","b","u","m","p">>, <<"_","b">>, <<"-","b">>,
         <<"r","e","l","i","e","f">>, <<"b","u","m","p","m","a","p","s">>,
         <<"N","o","r","m","a","l">>, <<"N","o","r","m","a","l","M","a","p">>,
         <<"N","o","r","m","a","l","_","M","a","p">>, <<"_","n","o","r","m","a","l">>,
         <<"_","n","o","r","m">>, <<"_","n","m","l">>
       >>],
       [channel |-> "Roughness", keywords |-> <<
         \* rough roughness rgh _r -r roughnessmap roughmaps gloss glossmap glossiness smoothness smooth ...
         <<"r","o","u","g","h">>, <<"r","o","u","g","h","n","e","s","s">>, <<"r","g","h">>,
         <<"_","r">>, <<"-","r">>, <<"r","o","u","g","h","n","e","s","s","m","a","p">>,
         <<"r","o","u","g","h","m","a","p","s">>, <<"g","l","o","s","s">>,
         <<"g","l","o","s","s","m","a","p">>, <<"g","l","o","s","s","i","n","e","s","s">>,
         <<"s","m","o","o","t","h","n","e","s","s">>, <<"s","m","o","o","t","h">>,
         <<"R","o","u","g","h","n","e","s","s">>,
         <<"R","o","u","g","h","n","e","s","s","M","a","p">>, <<"R","o","u","g","h">>,
         <<"_","r","o","u","g","h","n","e","s","s">>, <<"_","r","o","u","g","h">>,
         <<"_","r","g","h">>
       >>],
       [channel |-> "Metallic", keywords |-> <<
         \* metal metallic met metalness _m -m metallicmap metallicmaps spec specular _s -s ...
         <<"m","e","t","a","l">>, <<"m","e","t","a","l","l","i","c">>, <<"m","e","t">>,
         <<"m","e","t","a","l","n","e","s","s">>, <<"_","m">>, <<"-","m">>,
         <<"m","e","t","a","l","l","i","c","m","a","p">>,
         <<"m","e","t","a","l","l","i","c","m","a","p","s">>, <<"s","p","e","c">>,
         <<"s","p","e","c","u","l","a","r">>, <<"_","s">>, <<"-","s">>,
         <<"s","p","e","c","u","l","a","r","m","a","p">>,
         <<"s","p","e","c","u","l","a","r","m","a","p","s">>,
         <<"M","e","t","a","l","l","i","c">>,
         <<"M","e","t","a","l","l","i","c","M","a","p">>, <<"M","e","t","a","l">>,
         <<"_","m","e","t","a","l","l","i","c">>, <<"_","m","e","t","a","l">>,
         <<"_","m","e","t">>
       >>],
       [channel |-> "AO", keywords |-> <<
         \* ao ambient occlusion ambientocclusion _ao -ao occlusionmap ambientocclusionmap aomaps AO AmbientOcclusion Ambient_Occlusion ...
         <<"a","o">>, <<"a","m","b","i","e","n","t">>,
         <<"o","c","c","l","u","s","i","o","n">>,
         <<"a","m","b","i","e","n","t","o","c","c","l","u","s","i","o","n">>,
         <<"_","a","o">>, <<"-","a","o">>,
         <<"o","c","c","l","u","s","i","o","n","m","a","p">>,
         <<"a","m","b","i","e","n","t","o","c","c","l","u","s","i","o","n","m","a","p">>,
         <<"a","o","m","a","p","s">>, <<"A","O">>,
         <<"A","m","b","i","e","n","t","O","c","c","l","u","s","i","o","n">>,
         <<"A","m","b","i","e","n","t","_","O","c","c","l","u","s","i","o","n">>,
         <<"_","a","m","b","i","e","n","t","o","c","c","l","u","s","i","o","n">>
       >>],
       [channel |-> "Emissive", keywords |-> <<
         \* emissive emission emit glow _e -e emissionmap emissivemap selfillum emissivemaps Emissive EmissiveMap ...
         <<"e","m","i","s","s","i","v","e">>, <<"e","m","i","s","s","i","o","n">>,
         <<"e","m","i","t">>, <<"g","l","o","w">>, <<"_","e">>, <<"-","e">>,
         <<"e","m","i","s","s","i","o","n","m","a","p">>,
         <<"e","m","i","s","s","i","v","e","m","a","p">>,
         <<"s","e","l","f","i","l","l","u","m">>,
         <<"e","m","i","s","s","i","v","e","m","a","p","s">>,
         <<"E","m","i","s","s","i","v","e">>,
         <<"E","m","i","s","s","i","v","e","M","a","p">>,
         <<"E","m","i","s","s","i","o","n">>, <<"E","m","i","t">>,
         <<"_","e","m","i","s","s","i","v","e">>, <<"_","e","m","i","s","s","i","o","n">>
       >>],
       [channel |-> "Height", keywords |-> <<
         \* height heightmap displacement disp _h -h displacementmap parallax heightmaps Height HeightMap Displacement ...
         <<"h","e","i","g","h","t">>, <<"h","e","i","g","h","t","m","a","p">>,
         <<"d","i","s","p","l","a","c","e","m","e","n","t">>, <<"d","i","s","p">>,
         <<"_","h">>, <<"-","h">>,
         <<"d","i","s","p","l","a","c","e","m","e","n","t","m","a","p">>,
         <<"p","a","r","a","l","l","a","x">>, <<"h","e","i","g","h","t","m","a","p","s">>,
         <<"H","e","i","g","h","t">>, <<"H","e","i","g","h","t","M","a","p">>,
         <<"D","i","s","p","l","a","c","e","m","e","n","t">>, <<"D","i","s","p">>,
         <<"_","h","e","i","g","h","t">>, <<"_","d","i","s","p">>,
         <<"_","d","i","s","p","l","a","c","e","m","e","n","t">>
       >>],
       [channel |-> "Opacity", keywords |-> <<
         \* opacity alpha transparent transparency _a -a _o -o opacitymap alphamap mask opacitymaps ...
         <<"o","p","a","c","i","t","y">>, <<"a","l","p","h","a">>,
         <<"t","r","a","n","s","p","a","r","e","n","t">>,
         <<"t","r","a","n","s","p","a","r","e","n","c","y">>, <<"_","a">>, <<"-","a">>,
         <<"_","o">>, <<"-","o">>, <<"o","p","a","c","i","t","y","m","a","p">>,
         <<"a","l","p","h","a","m","a","p">>, <<"m","a","s","k">>,
         <<"o","p","a","c","i","t","y","m","a","p","s">>, <<"O","p","a","c","i","t","y">>,
         <<"O","p","a","c","i","t","y","M","a","p">>, <<"A","l","p","h","a">>,
         <<"A","l","p","h","a","M","a","p">>, <<"_","o","p","a","c","i","t","y">>,
         <<"_","a","l","p","h","a">>
       >>],
       [channel |-> "Specular", keywords |-> <<
         \* specular spec _s -s specularmap reflection refl specularmaps Specular SpecularMap Reflection _specular ...
         <<"s","p","e","c","u","l","a","r">>, <<"s","p","e","c">>, <<"_","s">>, <<"-","s">>,
         <<"s","p","e","c","u","l","a","r","m","a","p">>,
         <<"r","e","f","l","e","c","t","i","o","n">>, <<"r","e","f","l">>,
         <<"s","p","e","c","u","l","a","r","m","a","p","s">>,
         <<"S","p","e","c","u","l","a","r">>,
         <<"S","p","e","c","u","l","a","r","M","a","p">>,
         <<"R","e","f","l","e","c","t","i","o","n">>,
         <<"_","s","p","e","c","u","l","a","r">>, <<"_","s","p","e","c">>
       >>] >>

\* wall_normal.1001.jpg
wall_normal_1001 == <<"w","a","l","l","_","n","o","r","m","a","l",".","1","0","0","1",".","j","p","g">>

\* wall_normal.1002.jpg
wall_normal_1002 == <<"w","a","l","l","_","n","o","r","m","a","l",".","1","0","0","2",".","j","p","g">>

\* metal_specular.jpg
metal_specular_jpg == <<"m","e","t","a","l","_","s","p","e","c","u","l","a","r",".","j","p","g">>

\* tex/Wall_diff.jpg
wall_diff_jpg == <<"t","e","x","/","W","a","l","l","_","d","i","f","f",".","j","p","g">>

\* x.jpg
x_jpg == <<"x",".","j","p","g">>

\* tree_2020.jpg
tree_2020_jpg == <<"t","r","e","e","_","2","0","2","0",".","j","p","g">>

\* the texture files a project folder is drawn from
MatchFiles ==
    { wall_normal_1001, wall_normal_1002, metal_specular_jpg,
      wall_diff_jpg, x_jpg, tree_2020_jpg }

\* crate_diff.jpg
crate_diff_jpg ==
    <<"c", "r", "a", "t", "e", "_", "d", "i", "f", "f", ".", "j", "p", "g">>

\* crate_normal.jpg
crate_normal_jpg ==
    <<"c", "r", "a", "t", "e", "_", "n", "o", "r", "m", "a", "l", ".", "j", "p", "g">>

\* crate_rough.jpg
crate_rough_jpg ==
    <<"c", "r", "a", "t", "e", "_", "r", "o", "u", "g", "h", ".", "j", "p", "g">>

\* the texture files of a second project, one file per channel
CrateFiles == {crate_diff_jpg, crate_normal_jpg, crate_rough_jpg}

\* wall_normal_2020.jpg
wall_normal_2020_jpg ==
    <<"w", "a", "l", "l", "_", "n", "o", "r", "m", "a", "l", "_", "2", "0", "2", "0", ".", "j", "p", "g">>

\* the texture files of a third project: tiles of one texture and a file of
\* the same texture named after a year
WallNormalFiles == {wall_normal_1001, wall_normal_1002, wall_normal_2020_jpg}

\* crate
mat_crate ==
    <<"c", "r", "a", "t", "e">>

\* Wall
mat_Wall == <<"W","a","l","l">>

\* metal
mat_metal == <<"m","e","t","a","l">>

\* metal.fbx
model_metal_fbx == <<"m","e","t","a","l",".","f","b","x">>

\* a custom table: Metallic: ['metal'], Specular: ['specular']
METAL_SPECULAR_KEYWORDS ==
    << [channel |-> "Metallic", keywords |-> << <<"m","e","t","a","l">> >>],
       [channel |-> "Specular", keywords |-> << <<"s","p","e","c","u","l","a","r">> >>] >>


Materials == {EmptyStr, mat_Wall, mat_metal, mat_crate}

ModelNames == {EmptyStr, model_metal_fbx}

KeywordTables == {None, Table(METAL_SPECULAR_KEYWORDS)}

\* texture_files[:50] in the quick UDIM check of find_matching_textures
udim_scan_limit == 50

\* the decimal digits of 0..9
DigitChar == <<"0","1","2","3","4","5","6","7","8","9">>

\* p00.jpg, p01.jpg, ...: a project folder's other textures, as many as the
\* quick UDIM check looks at
OtherTextures ==
    [i \in 1..udim_scan_limit |->
        <<"p", DigitChar[((i - 1) \div 10) + 1], DigitChar[((i - 1) % 10) + 1],
          ".", "j", "p", "g">>]

-----------------------------------------------------------------------------
(* find_matching_textures (material_utils.py) and its two implementations *)

\* the extensions of the quick check's regex in find_matching_textures
quick_check_match(filename) == regex_match(filename, {".", "_"})

\* sum(1 for f in texture_files[:50] if udim_pattern.match(os.path.basename(f)))
potential_udim_count(files) ==
    Cardinality({i \in 1..Len(files) :
        i <= udim_scan_limit /\ quick_check_match(basename(files[i])).matched})

\* the name itself and its parts longer than 2 characters
name_bases(name_lower) ==
    IF name_lower = <<>> THEN {}
    ELSE {name_lower} \cup {part \in Range(re_split_parts(name_lower, 1, <<>>, FALSE)) :
                               Len(part) > 2}

\* search_bases, as the set of its elements
search_bases(material, model) ==
    LET material_name_lower == replace_space(lower(material))
        model_name_lower    == IF model # <<>> THEN lower(splitext_root(model)) ELSE <<>>
    IN  name_bases(material_name_lower) \cup name_bases(model_name_lower)

\* a base-name test every candidate passes
matches_base_any(bases, base_text) == TRUE

\* matches_base: some search base occurs in the candidate's name
matches_base(bases, base_text) == \E base \in bases : Contains(base_text, base)

\* no texture type: None, like every empty channel name, is false in `if texture_type_found'
NoType == ""

\* a membership test that never finds the channel: the `continue' on an
\* assigned channel and the `not in found_textures' guard are dropped
IsFound_ignored(found, channel) == FALSE

\* texture_type in found_textures
IsFound(found, channel) == channel \in DOMAIN found

\* the longest keyword of channel entry that occurs in text, 0 when none does
RECURSIVE scan_keywords_longest(_, _, _, _, _)
scan_keywords_longest(items, text, found, type_found, priority) ==
    IF Len(items) = 0 THEN type_found
    ELSE LET entry == Head(items) IN
         IF IsFound(found, entry.channel)
         THEN scan_keywords_longest(Tail(items), text, found, type_found, priority)
         ELSE LET lens == {Len(entry.keywords[k]) : k \in
                             {k \in 1..Len(entry.keywords) :
                                 Contains(text, entry.keywords[k])}}
                  best == IF lens = {} THEN 0
                          ELSE CHOOSE n \in lens : \A m \in lens : m <= n
              IN  IF best > priority
                  THEN scan_keywords_longest(Tail(items), text, found, entry.channel, best)
                  ELSE scan_keywords_longest(Tail(items), text, found, type_found, priority)

\* _find_matching_textures_standard: the keyword scan with priority len(keyword)
texture_type_longest(items, text, found) ==
    scan_keywords_longest(items, text, found, NoType, 0)

\* find_matching_textures_with_udim and both aggressive passes: the first
\* channel not yet found, in table order, one of whose keywords occurs in text
RECURSIVE texture_type_first(_, _, _)
texture_type_first(items, text, found) ==
    IF Len(items) = 0 THEN NoType
    ELSE LET entry == Head(items) IN
         IF /\ ~IsFound(found, entry.channel)
            /\ \E k \in 1..Len(entry.keywords) : Contains(text, entry.keywords[k])
         THEN entry.channel
         ELSE texture_type_first(Tail(items), text, found)

\* found_textures[channel] = candidate_path
Assign(found, channel, candidate_path) ==
    [c \in DOMAIN found \cup {channel} |->
        IF c = channel THEN candidate_path ELSE found[c]]

EmptyDict == <<>>

\* the files as _find_matching_textures_standard reads them: base names are
\* sought in the lower-cased file name without extension, keywords in the
\* lower-cased file name with its extension
standard_candidates(files) ==
    [i \in 1..Len(files) |->
        [path      |-> files[i],
         base_text |-> lower(splitext_root(lower(basename(files[i])))),
         kw_text   |-> lower(basename(files[i])),
         type      |-> "single"]]

\* all_texture_candidates of find_matching_textures_with_udim: the UDIM
\* patterns first, then the single textures
udim_candidates(analysis) ==
    [k \in 1..Len(analysis.udim_sequences) |->
        [path      |-> analysis.udim_sequences[k].pattern,
         base_text |-> lower(analysis.udim_sequences[k].base_name),
         kw_text   |-> lower(analysis.udim_sequences[k].base_name),
         type      |-> "udim"]]
    \o
    [k \in 1..Len(analysis.single_textures) |->
        [path      |-> analysis.single_textures[k],
         base_text |-> lower(splitext_root(basename(analysis.single_textures[k]))),
         kw_text   |-> lower(splitext_root(basename(analysis.single_textures[k]))),
         type      |-> "single"]]

\* the texture type the primary pass finds for a candidate
primary_type(impl, items, candidate, found) ==
    IF impl = "standard" THEN texture_type_longest(items, candidate.kw_text, found)
    ELSE texture_type_first(items, candidate.kw_text, found)

\* a primary loop that stops assigning after its first assignment
primary_step_first_only(impl, items, bases, candidate, found) ==
    LET texture_type_found == primary_type(impl, items, candidate, found)
    IN  IF /\ DOMAIN found = {}
           /\ texture_type_found # NoType
           /\ (matches_base(bases, candidate.base_text) \/ Cardinality(bases) = 0)
        THEN Assign(found, texture_type_found, candidate.path)
        ELSE found

\* one iteration of the primary loop
primary_step(impl, items, bases, candidate, found) ==
    LET texture_type_found == primary_type(impl, items, candidate, found)
    IN  IF /\ texture_type_found # NoType
           /\ ~IsFound(found, texture_type_found)
           /\ (matches_base(bases, candidate.base_text) \/ Cardinality(bases) = 0)
        THEN Assign(found, texture_type_found, candidate.path)
        ELSE found

\* an aggressive iteration without the break after the first assignment: the
\* candidate goes to every unfound channel whose keyword its name holds
RECURSIVE aggressive_step_every_channel(_, _, _)
aggressive_step_every_channel(items, candidate, found) ==
    IF items = <<>> THEN found
    ELSE LET entry == Head(items)
         IN  aggressive_step_every_channel(Tail(items), candidate,
                IF /\ ~IsFound(found, entry.channel)
                   /\ \E k \in 1..Len(entry.keywords) :
                         Contains(candidate.kw_text, entry.keywords[k])
                THEN Assign(found, entry.channel, candidate.path)
                ELSE found)

\* one iteration of the aggressive loop
aggressive_step(items, candidate, found) ==
    LET texture_type == texture_type_first(items, candidate.kw_text, found)
    IN  IF texture_type # NoType THEN Assign(found, texture_type, candidate.path)
        ELSE found

\* the primary loop over the candidates from position i on
RECURSIVE primary_loop(_, _, _, _, _, _)
primary_loop(impl, items, bases, cands, i, found) ==
    IF i > Len(cands) THEN found
    ELSE primary_loop(impl, items, bases, cands, i + 1,
                      primary_step(impl, items, bases, cands[i], found))

\* the aggressive loop over the candidates from position i on
RECURSIVE aggressive_loop(_, _, _, _)
aggressive_loop(items, cands, i, found) ==
    IF i > Len(cands) THEN found
    ELSE aggressive_loop(items, cands, i + 1, aggressive_step(items, cands[i], found))

\* the three passes both implementations make over their candidates: the
\* primary loop, the aggressive loop if it found nothing, the BaseMap
\* fallback if that found nothing either
search_passes(impl, items, bases, cands) ==
    LET primary    == primary_loop(impl, items, bases, cands, 1, EmptyDict)
        aggressive == IF DOMAIN primary = {}
                      THEN aggressive_loop(items, cands, 1, primary)
                      ELSE primary
    IN  IF DOMAIN aggressive = {} /\ cands # <<>>
        THEN Assign(aggressive, "BaseMap", cands[1].path)
        ELSE aggressive

\* _find_matching_textures_standard(material_name, texture_files, texture_keywords, model_basename)
find_matching_textures_standard(material, files, items, model) ==
    IF Len(files) = 1 THEN Assign(EmptyDict, "BaseMap", files[1])
    ELSE search_passes("standard", items, search_bases(material, model),
                       standard_candidates(files))

\* find_matching_textures_with_udim(material_name, texture_files, texture_keywords, model_basename)
find_matching_textures_with_udim(material, files, items, model) ==
    IF material = <<>> \/ files = <<>> THEN EmptyDict
    ELSE search_passes("udim", items, search_bases(material, model),
                       udim_candidates(detect_udim_sequences(files)))

\* UDIM_SUPPORT: udim_utils is importable
UDIM_SUPPORT == TRUE

\* a keyword parameter used as passed
resolve_keywords_kept(keywords) == keywords

\* if texture_keywords is None: texture_keywords = ENHANCED_TEXTURE_KEYWORDS
resolve_keywords(keywords) ==
    IF keywords.none THEN Table(ENHANCED_TEXTURE_KEYWORDS) ELSE keywords

\* a dispatch test that one UDIM-looking name already satisfies
takes_udim_path_one(files) == UDIM_SUPPORT /\ potential_udim_count(files) >= 1

\* the quick UDIM check of find_matching_textures selects the UDIM analysis
takes_udim_path(files) == UDIM_SUPPORT /\ potential_udim_count(files) >= 2

\* the listing of a project folder (find_texture_files_optimized walks the
\* folder, so no path occurs twice): a few texture files of one project,
\* alone or (one fewer) after the other textures
ProjectFolders ==
    {files \in SeqsUpTo(MatchFiles, MaxFiles) : Distinct(files)}
    \cup {files \in SeqsUpTo(CrateFiles, MaxFiles) : Distinct(files)}
    \cup {files \in SeqsUpTo(WallNormalFiles, MaxFiles) : Distinct(files)}
    \cup {OtherTextures \o files : files \in
             {f \in SeqsUpTo(MatchFiles, MaxFiles - 1) : Distinct(f)}}

\* main.py and the cache manager call
\* find_matching_textures(material_name, texture_files, texture_keywords, model_basename);
\* the call is followed on its own, outside the CacheManager's lock
Init ==
    /\ enabled = FALSE
    /\ InitCacheManager
    /\ NoNameCleaned
    /\ texture_files \in ProjectFolders
    /\ files_is_none \in BOOLEAN
    /\ files_is_none => texture_files = <<>>
    /\ material_name \in Materials
    /\ model_basename \in ModelNames
    /\ texture_keywords \in KeywordTables
    /\ pc = "call"
    /\ path = "none"
    /\ candidates = <<>>
    /\ idx = 1
    /\ found_textures = EmptyDict
    /\ udim_groups = <<>>
    /\ single_textures = <<>>
    /\ udim_sequences = <<>>

args_unchanged ==
    UNCHANGED <<texture_files, files_is_none, material_name, model_basename, cache_vars,
                clean_vars>>

detect_unchanged == UNCHANGED <<udim_groups, single_textures, udim_sequences>>

\* if not material_name or not texture_files: return found_textures
\* (None and the empty list are both falsy)
ReturnEmpty ==
    /\ pc = "call"
    /\ material_name = <<>> \/ files_is_none \/ texture_files = <<>>
    /\ texture_keywords' = resolve_keywords(texture_keywords)
    /\ found_textures' = EmptyDict
    /\ pc' = "done"
    /\ UNCHANGED <<path, candidates, idx>>
    /\ args_unchanged /\ detect_unchanged

\* potential_udim_count >= 2: return find_matching_textures_with_udim(...), up
\* to the start of its primary loop
UdimStart ==
    /\ pc = "call"
    /\ material_name # <<>> /\ texture_files # <<>>
    /\ takes_udim_path(texture_files)
    /\ texture_keywords' = resolve_keywords(texture_keywords)
    /\ LET scanned      == scan_all(texture_files, 1, <<>>, <<>>)
           udim_analysis == detect_udim_sequences(texture_files)
       IN  /\ udim_groups' = scanned.groups
           /\ udim_sequences' = udim_analysis.udim_sequences
           /\ single_textures' = udim_analysis.single_textures
           /\ candidates' = udim_candidates(udim_analysis)
    /\ found_textures' = EmptyDict
    /\ path' = "udim"
    /\ pc' = "primary"
    /\ idx' = 1
    /\ args_unchanged

\* _find_matching_textures_standard with len(texture_files) == 1
StandardSingleTexture ==
    /\ pc = "call"
    /\ material_name # <<>> /\ texture_files # <<>>
    /\ ~takes_udim_path(texture_files)
    /\ Len(texture_files) = 1
    /\ texture_keywords' = resolve_keywords(texture_keywords)
    /\ found_textures' = Assign(EmptyDict, "BaseMap", texture_files[1])
    /\ path' = "standard"
    /\ pc' = "done"
    /\ UNCHANGED <<candidates, idx>>
    /\ args_unchanged /\ detect_unchanged

\* _find_matching_textures_standard up to the start of its primary loop
StandardStart ==
    /\ pc = "call"
    /\ material_name # <<>> /\ texture_files # <<>>
    /\ ~takes_udim_path(texture_files)
    /\ Len(texture_files) # 1
    /\ texture_keywords' = resolve_keywords(texture_keywords)
    /\ candidates' = standard_candidates(texture_files)
    /\ found_textures' = EmptyDict
    /\ path' = "standard"
    /\ pc' = "primary"
    /\ idx' = 1
    /\ args_unchanged /\ detect_unchanged

loop_unchanged == UNCHANGED <<texture_keywords, path, candidates>>

\* one candidate of the primary loop
PrimaryStep ==
    /\ pc = "primary"
    /\ idx <= Len(candidates)
    /\ found_textures' = primary_step(path, texture_keywords.items,
                             search_bases(material_name, model_basename),
                             candidates[idx], found_textures)
    /\ idx' = idx + 1
    /\ UNCHANGED pc
    /\ loop_unchanged /\ args_unchanged /\ detect_unchanged

\* the primary loop ends: `if not found_textures:' opens the aggressive search
PrimaryEnd ==
    /\ pc = "primary"
    /\ idx > Len(candidates)
    /\ pc' = IF DOMAIN found_textures = {} THEN "aggressive" ELSE "fallback"
    /\ idx' = 1
    /\ UNCHANGED found_textures
    /\ loop_unchanged /\ args_unchanged /\ detect_unchanged

\* one candidate of the aggressive loop
AggressiveStep ==
    /\ pc = "aggressive"
    /\ idx <= Len(candidates)
    /\ found_textures' = aggressive_step(texture_keywords.items, candidates[idx],
                                         found_textures)
    /\ idx' = idx + 1
    /\ UNCHANGED pc
    /\ loop_unchanged /\ args_unchanged /\ detect_unchanged

AggressiveEnd ==
    /\ pc = "aggressive"
    /\ idx > Len(candidates)
    /\ pc' = "fallback"
    /\ UNCHANGED <<idx, found_textures>>
    /\ loop_unchanged /\ args_unchanged /\ detect_unchanged

\* a fallback that takes the last candidate
TerminalFallback_last ==
    /\ pc = "fallback"
    /\ DOMAIN found_textures = {} /\ candidates # <<>>
    /\ found_textures' = Assign(found_textures, "BaseMap", candidates[Len(candidates)].path)
    /\ pc' = "done"
    /\ UNCHANGED idx
    /\ loop_unchanged /\ args_unchanged /\ detect_unchanged

\* if not found_textures and candidates: found_textures["BaseMap"] = first
TerminalFallback ==
    /\ pc = "fallback"
    /\ DOMAIN found_textures = {} /\ candidates # <<>>
    /\ found_textures' = Assign(found_textures, "BaseMap", candidates[1].path)
    /\ pc' = "done"
    /\ UNCHANGED idx
    /\ loop_unchanged /\ args_unchanged /\ detect_unchanged

\* return found_textures
Return ==
    /\ pc = "fallback"
    /\ ~(DOMAIN found_textures = {} /\ candidates # <<>>)
    /\ pc' = "done"
    /\ UNCHANGED <<idx, found_textures>>
    /\ loop_unchanged /\ args_unchanged /\ detect_unchanged

Next ==
    \/ ReturnEmpty
    \/ UdimStart
    \/ StandardSingleTexture
    \/ StandardStart
    \/ PrimaryStep
    \/ PrimaryEnd
    \/ AggressiveStep
    \/ AggressiveEnd
    \/ TerminalFallback
    \/ Return

Spec == Init /\ [][Next]_vars

-----------------------------------------------------------------------------
(* CacheManager: the lock self._lock = threading.Lock() and the methods    *)
(* that take it.  A method is a list of instructions, a thread runs the    *)
(* method on top of its stack; hit counters and log output are left out.   *)

\* the keys a caller passes (a material name, a node name, a texture cache key)
Keys == {"k1", "k2"}

Instr(op, arg) == [op |-> op, arg |-> arg]

\* _save_cache(cache_file, data)
save_cache_code ==
    << Instr("check", "enabled"),       \* if not self.enabled or not cache_file: return
       Instr("acquire", "_lock"),       \* with self._lock:
       Instr("write", "cache_file"),    \*     json.dump to a temp file, rename
       Instr("release", "_lock"),
       Instr("return", "") >>

\* get_material_path(material_name)
get_material_path_code ==
    << Instr("check", "enabled"),
       Instr("acquire", "_lock"),
       Instr("lookup", "materials"),    \* hit or miss, both return inside the with
       Instr("release", "_lock"),
       Instr("return", "") >>

\* set_material_path(material_name, material_path)
set_material_path_code ==
    << Instr("check", "enabled"),
       Instr("acquire", "_lock"),
       Instr("store", "materials"),     \* self.materials_cache[material_name] = material_path
       Instr("save", "materials"),      \* self._save_cache(self.materials_cache_file, ...)
       Instr("release", "_lock"),
       Instr("return", "") >>

\* update_material_cache(material_cache)
update_material_cache_code ==
    << Instr("check", "enabled"),
       Instr("acquire", "_lock"),
       Instr("store", "materials"),     \* self.materials_cache.update(material_cache)
       Instr("save", "materials"),
       Instr("release", "_lock"),
       Instr("return", "") >>

\* clear_cache()
clear_cache_code ==
    << Instr("check", "enabled"),
       Instr("acquire", "_lock"),
       Instr("clear", "all"),           \* the three caches = {}
       Instr("save", "materials"),
       Instr("save", "node_names"),
       Instr("save", "textures"),
       Instr("release", "_lock"),
       Instr("return", "") >>

\* get_clean_node_name(name)
get_clean_node_name_code ==
    << Instr("check", "enabled"),
       Instr("acquire", "_lock"),
       Instr("lookup", "node_names"),   \* a hit returns inside the with
       Instr("store", "node_names"),    \* self.node_names_cache[cache_key] = cleaned_name
       Instr("save", "node_names"),
       Instr("release", "_lock"),
       Instr("return", "") >>

\* find_matching_textures(material_name, model_basename, texture_files, texture_keywords)
find_matching_textures_code ==
    << Instr("check", "enabled"),
       Instr("acquire", "_lock"),
       Instr("lookup", "textures"),     \* a valid hit returns inside the with
       Instr("release", "_lock"),
       Instr("search", ""),             \* self._find_textures_fallback(...)
       Instr("acquire", "_lock"),
       Instr("store", "textures"),      \* self.textures_cache[cache_key] = found_textures
       Instr("save", "textures"),
       Instr("release", "_lock"),
       Instr("return", "") >>

\* the public methods that take the lock
Methods ==
    {"get_material_path", "set_material_path", "update_material_cache",
     "clear_cache", "get_clean_node_name", "find_matching_textures"}

Code(method) ==
    CASE method = "_save_cache" -> save_cache_code
      [] method = "get_material_path" -> get_material_path_code
      [] method = "set_material_path" -> set_material_path_code
      [] method = "update_material_cache" -> update_material_cache_code
      [] method = "clear_cache" -> clear_cache_code
      [] method = "get_clean_node_name" -> get_clean_node_name_code
      [] method = "find_matching_textures" -> find_matching_textures_code

\* the frame a thread is running, and its current instruction
Top(t) == frames[t][Len(frames[t])]
Running(t) == frames[t] # <<>>
Current(t) == Code(Top(t).method)[Top(t).at]
At(t, op) == Running(t) /\ Current(t).op = op

\* the stack with the running frame moved to instruction at
Goto(t, at) ==
    [frames EXCEPT ![t] = [@ EXCEPT ![Len(@)] = [@ EXCEPT !.at = at]]]
Advance(t) == Goto(t, Top(t).at + 1)

\* the index of the last instruction op of the running method
LastOf(t, op) ==
    CHOOSE i \in 1..Len(Code(Top(t).method)) :
       /\ Code(Top(t).method)[i].op = op
       /\ \A j \in 1..Len(Code(Top(t).method)) : Code(Top(t).method)[j].op = op => j <= i

\* the keys of a cache
CacheOf(name) ==
    CASE name = "materials" -> materials_cache
      [] name = "node_names" -> node_names_cache
      [] name = "textures" -> textures_cache

matching_unchanged == UNCHANGED <<match_vars, clean_vars>>

\* no method is running on a CacheManager that main.py has just built; the
\* texture matching is not in a call
InitCache ==
    /\ enabled \in BOOLEAN
    /\ InitCacheManager
    /\ NoNameCleaned
    /\ texture_files = <<>>
    /\ files_is_none = FALSE
    /\ material_name = EmptyStr
    /\ model_basename = EmptyStr
    /\ texture_keywords = None
    /\ pc = "idle"
    /\ path = "none"
    /\ candidates = <<>>
    /\ idx = 1
    /\ found_textures = <<>>
    /\ udim_groups = <<>>
    /\ single_textures = <<>>
    /\ udim_sequences = <<>>

\* a thread calls a public method
CallMethod(t) ==
    /\ ~Running(t)
    /\ calls[t] < MaxCalls
    /\ \E method \in Methods, key \in Keys :
          frames' = [frames EXCEPT ![t] =
                        <<[method |-> method, at |-> 1, key |-> key, file |-> ""]>>]
    /\ calls' = [calls EXCEPT ![t] = @ + 1]
    /\ UNCHANGED <<enabled, lock, materials_cache, node_names_cache, textures_cache,
                   cache_files>>
    /\ matching_unchanged

\* if not self.enabled ...: return
CheckEnabled(t) ==
    /\ At(t, "check")
    /\ frames' = IF enabled THEN Advance(t) ELSE Goto(t, LastOf(t, "return"))
    /\ UNCHANGED <<enabled, lock, calls, materials_cache, node_names_cache,
                   textures_cache, cache_files>>
    /\ matching_unchanged

\* with self._lock: threading.Lock.acquire blocks until the lock is free,
\* whoever holds it
Acquire(t) ==
    /\ At(t, "acquire")
    /\ lock = "free"
    /\ lock' = t
    /\ frames' = Advance(t)
    /\ UNCHANGED <<enabled, calls, materials_cache, node_names_cache, textures_cache,
                   cache_files>>
    /\ matching_unchanged

\* the end of a with self._lock block
Release(t) ==
    /\ At(t, "release")
    /\ lock' = "free"
    /\ frames' = Advance(t)
    /\ UNCHANGED <<enabled, calls, materials_cache, node_names_cache, textures_cache,
                   cache_files>>
    /\ matching_unchanged

\* if key in cache: a hit leaves the with block and returns the entry (a
\* texture entry only when _validate_cached_textures accepts it, else it is
\* deleted); a miss goes on
Lookup(t) ==
    /\ At(t, "lookup")
    /\ \E valid \in BOOLEAN :
          /\ Current(t).arg # "textures" => valid
          /\ IF Top(t).key \in CacheOf(Current(t).arg)
             THEN IF valid
                  THEN frames' = Goto(t, LastOf(t, "release")) /\ UNCHANGED textures_cache
                  ELSE /\ frames' = Advance(t)
                       /\ textures_cache' = textures_cache \ {Top(t).key}
             ELSE frames' = Advance(t) /\ UNCHANGED textures_cache
    /\ UNCHANGED <<enabled, lock, calls, materials_cache, node_names_cache, cache_files>>
    /\ matching_unchanged

\* the statements that change the caches or a cache file, and the texture
\* search of find_matching_textures (which changes neither)
Execute(t) ==
    /\ Running(t)
    /\ Current(t).op \in {"store", "clear", "write", "search"}
    /\ LET op  == Current(t).op
           arg == Current(t).arg
       IN  /\ materials_cache' =
                 IF op = "clear" THEN {}
                 ELSE IF op = "store" /\ arg = "materials"
                      THEN materials_cache \cup {Top(t).key}
                 ELSE materials_cache
           /\ node_names_cache' =
                 IF op = "clear" THEN {}
                 ELSE IF op = "store" /\ arg = "node_names"
                      THEN node_names_cache \cup {Top(t).key}
                 ELSE node_names_cache
           /\ textures_cache' =
                 IF op = "clear" THEN {}
                 ELSE IF op = "store" /\ arg = "textures"
                      THEN textures_cache \cup {Top(t).key}
                 ELSE textures_cache
           /\ cache_files' =
                 IF op = "write"
                 THEN [cache_files EXCEPT ![Top(t).file] = CacheOf(Top(t).file)]
                 ELSE cache_files
    /\ frames' = Advance(t)
    /\ UNCHANGED <<enabled, lock, calls>>
    /\ matching_unchanged

\* self._save_cache(cache_file, data), called by the running method
SaveCache(t) ==
    /\ At(t, "save")
    /\ frames' = [frames EXCEPT ![t] =
                     Append(@, [method |-> "_save_cache", at |-> 1,
                                key |-> Top(t).key, file |-> Current(t).arg])]
    /\ UNCHANGED <<enabled, lock, calls, materials_cache, node_names_cache,
                   textures_cache, cache_files>>
    /\ matching_unchanged

\* the method returns: to its caller's next statement, or out of the manager
MethodReturn(t) ==
    /\ At(t, "return")
    /\ frames' = [frames EXCEPT ![t] =
                     LET rest == SubSeq(@, 1, Len(@) - 1)
                     IN  IF rest = <<>> THEN rest
                         ELSE [rest EXCEPT ![Len(rest)] = [@ EXCEPT !.at = @ + 1]]]
    /\ UNCHANGED <<enabled, lock, calls, materials_cache, node_names_cache,
                   textures_cache, cache_files>>
    /\ matching_unchanged

NextCache ==
    \E t \in Threads :
       \/ CallMethod(t)
       \/ CheckEnabled(t)
       \/ Acquire(t)
       \/ Release(t)
       \/ Lookup(t)
       \/ Execute(t)
       \/ SaveCache(t)
       \/ MethodReturn(t)

SpecCache == InitCache /\ [][NextCache]_vars

-----------------------------------------------------------------------------
(* CacheManager.find_matching_textures (cache_manager.py): the texture cache *)

\* the printable ASCII characters in code point order, from 32 on (the
\* quote, the backslash and the backtick, which no path of the model holds,
\* by name)
Ascii ==
    <<" ", "!", "(quote)", "#", "$", "%", "&", "'", "(", ")", "*", "+",
       ",", "-", ".", "/", "0", "1", "2", "3", "4", "5", "6", "7",
       "8", "9", ":", ";", "<", "=", ">", "?", "@", "A", "B", "C",
       "D", "E", "F", "G", "H", "I", "J", "K", "L", "M", "N", "O",
       "P", "Q", "R", "S", "T", "U", "V", "W", "X", "Y", "Z", "[",
       "(backslash)", "]", "^", "_", "(backtick)", "a", "b", "c", "d", "e", "f", "g",
       "h", "i", "j", "k", "l", "m", "n", "o", "p", "q", "r", "s",
       "t", "u", "v", "w", "x", "y", "z", "{", "|", "}", "~" >>

\* ord(c)
ord(c) == 31 + (CHOOSE i \in 1..Len(Ascii) : Ascii[i] = c)

\* a < b for two str: the order sorted() uses
RECURSIVE str_less(_, _)
str_less(a, b) ==
    IF a = <<>> THEN b # <<>>
    ELSE IF b = <<>> THEN FALSE
    ELSE IF Head(a) = Head(b) THEN str_less(Tail(a), Tail(b))
    ELSE ord(Head(a)) < ord(Head(b))

\* the list s, sorted, with x put in its place
RECURSIVE insert_str(_, _)
insert_str(x, s) ==
    IF s = <<>> THEN <<x>>
    ELSE IF str_less(x, Head(s)) THEN <<x>> \o s
    ELSE <<Head(s)>> \o insert_str(x, Tail(s))

\* sorted_files(texture_files)
RECURSIVE sorted_files(_)
sorted_files(files) ==
    IF files = <<>> THEN <<>>
    ELSE insert_str(Head(files), sorted_files(Tail(files)))

\* "".join(sorted_files)
RECURSIVE join_empty(_)
join_empty(strs) ==
    IF strs = <<>> THEN <<>> ELSE Head(strs) \o join_empty(Tail(strs))

\* hashlib.md5(combined_string.encode('utf-8')).hexdigest()[:16]: the digest
\* stands for the string it was made of (no two strings of the model share
\* sixteen hex digits)
md5_hexdigest_16(combined_string) == <<"md5:">> \o combined_string

\* _create_texture_hash(texture_files)
create_texture_hash(files) ==
    IF files = <<>> THEN <<"e", "m", "p", "t", "y">>
    ELSE md5_hexdigest_16(join_empty(sorted_files(files)))

\* cache_key = f"{material_name}_{model_basename}_{texture_files_hash}"
cache_key(material, model, files) ==
    material \o <<"_">> \o model \o <<"_">> \o create_texture_hash(files)

\* os.path.exists(tex_path): the texture files of the project are on disk, a
\* pattern path with the placeholder names no file
path_exists(tex_path) == ~Contains(tex_path, placeholder)

\* _validate_cached_textures(cached_textures)
validate_cached_textures(cached_textures) ==
    \A tex_type \in DOMAIN cached_textures :
       cached_textures[tex_type] = <<>> \/ path_exists(cached_textures[tex_type])

\* material_utils.find_matching_textures(material_name, texture_files,
\* texture_keywords, model_basename), the whole call
find_matching_textures(material, files, keywords, model) ==
    LET resolved == resolve_keywords(keywords)
    IN  IF material = <<>> \/ files = <<>> THEN EmptyDict
        ELSE IF takes_udim_path(files)
             THEN find_matching_textures_with_udim(material, files, resolved.items, model)
             ELSE find_matching_textures_standard(material, files, resolved.items, model)

\* _find_textures_fallback(...): material_utils is importable
find_textures_fallback(material, model, files, keywords) ==
    find_matching_textures(material, files, keywords, model)

\* the thread that calls CacheManager.find_matching_textures
caller == "t1"

\* the file lists the caller passes: two files without keyword in either
\* order, a file with a keyword, two tiles of one sequence
CachedFolders ==
    { <<x_jpg>>, <<x_jpg, tree_2020_jpg>>, <<tree_2020_jpg, x_jpg>>,
      <<wall_diff_jpg, x_jpg>>, <<x_jpg, wall_diff_jpg>>,
      <<wall_normal_1001, wall_normal_1002>> }

\* self.textures_cache[cache_key] when cache_key in self.textures_cache
CachedTextures(key) == (CHOOSE entry \in textures_cache : entry.key = key).textures

\* self.textures_cache[cache_key] = found_textures
StoreTextures(cache, key, textures) ==
    {entry \in cache : entry.key # key} \cup {[key |-> key, textures |-> textures]}

textures_call_unchanged ==
    UNCHANGED <<frames, materials_cache, node_names_cache, cache_files,
                files_is_none, path, candidates, idx, udim_groups, single_textures,
                udim_sequences, clean_vars>>

textures_args_unchanged ==
    UNCHANGED <<material_name, model_basename, texture_files, texture_keywords, calls>>

\* CacheManager(enabled=True) on a machine without cache files; textures_cache
\* holds entries [key, textures]
InitTextures ==
    /\ enabled = TRUE
    /\ InitCacheManager
    /\ NoNameCleaned
    /\ texture_files = <<>>
    /\ files_is_none = FALSE
    /\ material_name = EmptyStr
    /\ model_basename = EmptyStr
    /\ texture_keywords = None
    /\ pc = "idle"
    /\ path = "cache"
    /\ candidates = <<>>
    /\ idx = 1
    /\ found_textures = EmptyDict
    /\ udim_groups = <<>>
    /\ single_textures = <<>>
    /\ udim_sequences = <<>>

\* cache_manager.find_matching_textures(material_name, model_basename,
\* texture_files, texture_keywords) is called (material_utils.py's callers)
CachedCall ==
    /\ pc \in {"idle", "returned"}
    /\ calls[caller] < MaxCalls
    /\ calls' = [calls EXCEPT ![caller] = @ + 1]
    /\ material_name' = mat_Wall
    /\ model_basename' \in ModelNames
    /\ texture_files' \in CachedFolders
    /\ texture_keywords' \in KeywordTables
    /\ found_textures' = EmptyDict
    /\ pc' = "check"
    /\ UNCHANGED <<enabled, lock, textures_cache>>
    /\ textures_call_unchanged

\* if not self.enabled: return self._find_textures_fallback(...)
CachedDisabled ==
    /\ pc = "check"
    /\ ~enabled
    /\ found_textures' = find_textures_fallback(material_name, model_basename,
                                                texture_files, texture_keywords)
    /\ pc' = "returned"
    /\ UNCHANGED <<enabled, lock, textures_cache>>
    /\ textures_args_unchanged /\ textures_call_unchanged

\* the first with self._lock block: a valid hit returns the cached mapping,
\* a stale entry is deleted, a miss goes on to the search
CachedLookup ==
    /\ pc = "check"
    /\ enabled
    /\ lock = "free"
    /\ LET key == cache_key(material_name, model_basename, texture_files)
       IN  IF \E entry \in textures_cache : entry.key = key
           THEN IF validate_cached_textures(CachedTextures(key))
                THEN /\ found_textures' = CachedTextures(key)
                     /\ pc' = "returned"
                     /\ UNCHANGED textures_cache
                ELSE /\ textures_cache' = {entry \in textures_cache : entry.key # key}
                     /\ pc' = "search"
                     /\ UNCHANGED found_textures
           ELSE /\ pc' = "search"
                /\ UNCHANGED <<found_textures, textures_cache>>
    /\ UNCHANGED <<enabled, lock>>
    /\ textures_args_unchanged /\ textures_call_unchanged

\* found_textures = self._find_textures_fallback(...)
CachedSearch ==
    /\ pc = "search"
    /\ found_textures' = find_textures_fallback(material_name, model_basename,
                                                texture_files, texture_keywords)
    /\ pc' = "store"
    /\ UNCHANGED <<enabled, lock, textures_cache>>
    /\ textures_args_unchanged /\ textures_call_unchanged

\* with self._lock: self.textures_cache[cache_key] = found_textures
CachedStore ==
    /\ pc = "store"
    /\ lock = "free"
    /\ lock' = caller
    /\ textures_cache' = StoreTextures(textures_cache,
                            cache_key(material_name, model_basename, texture_files),
                            found_textures)
    /\ pc' = "save"
    /\ UNCHANGED <<enabled, found_textures>>
    /\ textures_args_unchanged /\ textures_call_unchanged

\* self._save_cache(...) inside the with block on a disabled cache: it
\* returns at once, the block ends, the call returns found_textures
CachedSaveSkipped ==
    /\ pc = "save"
    /\ ~enabled
    /\ lock' = "free"
    /\ pc' = "returned"
    /\ UNCHANGED <<enabled, found_textures, textures_cache>>
    /\ textures_args_unchanged /\ textures_call_unchanged

\* self._save_cache(...) inside the with block on an enabled cache: its own
\* with self._lock requests the lock the caller holds
CachedSaveBlocked ==
    /\ pc = "save"
    /\ enabled
    /\ lock = caller
    /\ pc' = "blocked"
    /\ UNCHANGED <<enabled, lock, found_textures, textures_cache>>
    /\ textures_args_unchanged /\ textures_call_unchanged

\* disable_cache() on another thread: it takes no lock
DisableCache ==
    /\ enabled
    /\ enabled' = FALSE
    /\ UNCHANGED <<lock, found_textures, textures_cache, pc>>
    /\ textures_args_unchanged /\ textures_call_unchanged

\* enable_cache() on another thread: the cache directory exists
EnableCache ==
    /\ ~enabled
    /\ enabled' = TRUE
    /\ UNCHANGED <<lock, found_textures, textures_cache, pc>>
    /\ textures_args_unchanged /\ textures_call_unchanged

NextTextures ==
    \/ CachedCall \/ CachedDisabled \/ CachedLookup \/ CachedSearch \/ CachedStore
    \/ CachedSaveSkipped \/ CachedSaveBlocked \/ DisableCache \/ EnableCache

SpecTextures == InitTextures /\ [][NextTextures]_vars

-----------------------------------------------------------------------------
(* clean_node_name (utils.py) *)

\* the characters of the class [a-zA-Z0-9_]
WordChars ==
    DOMAIN UpperToLower \cup {UpperToLower[c] : c \in DOMAIN UpperToLower}
    \cup DOMAIN DigitValue \cup {"_"}

\* the characters str.strip() takes off
Whitespace == {" ", "\t", "\n", "\r"}

\* s.strip(chars): the leading and trailing characters of the set taken off
RECURSIVE lstrip_chars(_, _)
lstrip_chars(s, chars) ==
    IF s # <<>> /\ Head(s) \in chars THEN lstrip_chars(Tail(s), chars) ELSE s

RECURSIVE rstrip_chars(_, _)
rstrip_chars(s, chars) ==
    IF s # <<>> /\ s[Len(s)] \in chars
    THEN rstrip_chars(SubSeq(s, 1, Len(s) - 1), chars)
    ELSE s

strip_chars(s, chars) == rstrip_chars(lstrip_chars(s, chars), chars)

\* re.sub(r'[^a-zA-Z0-9_]', '_', name)
sub_non_word(s) == [i \in 1..Len(s) |-> IF s[i] \in WordChars THEN s[i] ELSE "_"]

\* cleaned_name and cleaned_name[0].isdigit()
starts_with_digit(s) == s # <<>> /\ IsDigit(s[1])

\* if cleaned_name and cleaned_name[0].isdigit(): cleaned_name = 'n_' + cleaned_name
digit_prefix(s) == IF starts_with_digit(s) THEN <<"n", "_">> \o s ELSE s

\* the literal 30 of clean_node_name, LIMITS['max_node_name_length']
max_node_name_length == 30

\* if len(cleaned_name) > 30: cleaned_name = cleaned_name[:30]
truncate(s) ==
    IF Len(s) > max_node_name_length THEN SubSeq(s, 1, max_node_name_length) ELSE s

double_underscore == <<"_", "_">>

\* cleaned_name.replace('__', '_'): the occurrences from the left, not
\* overlapping
RECURSIVE replace_double_underscore(_)
replace_double_underscore(s) ==
    IF Len(s) < 2 THEN s
    ELSE IF SubSeq(s, 1, 2) = double_underscore
         THEN <<"_">> \o replace_double_underscore(SubSeq(s, 3, Len(s)))
         ELSE <<Head(s)>> \o replace_double_underscore(Tail(s))

\* while '__' in cleaned_name: cleaned_name = cleaned_name.replace('__', '_')
RECURSIVE collapse_underscores(_)
collapse_underscores(s) ==
    IF Contains(s, double_underscore)
    THEN collapse_underscores(replace_double_underscore(s))
    ELSE s

default_node == <<"d", "e", "f", "a", "u", "l", "t", "_", "n", "o", "d", "e">>

\* if not cleaned_name or len(cleaned_name) < 2: cleaned_name = "default_node"
default_if_short(s) == IF s = <<>> \/ Len(s) < 2 THEN default_node ELSE s

\* cleaned_name.isdigit()
isdigit(s) == s # <<>> /\ \A i \in 1..Len(s) : IsDigit(s[i])

\* if cleaned_name.isdigit(): cleaned_name = f"node_{cleaned_name}"
node_prefix(s) == IF isdigit(s) THEN <<"n", "o", "d", "e", "_">> \o s ELSE s

\* clean_node_name(name), the whole call, for a str
clean_node_name(name_arg) ==
    IF name_arg = <<>> THEN default_node
    ELSE LET stripped == strip_chars(name_arg, Whitespace)
         IN  IF stripped = <<>> THEN default_node
             ELSE node_prefix(default_if_short(strip_chars(
                     collapse_underscores(truncate(digit_prefix(sub_non_word(stripped)))),
                     {"_"})))

\* longest run of one character in a name passed to clean_node_name
MaxRun == 31

\* s repeated n times
RECURSIVE Repeat(_, _)
Repeat(s, n) == IF n = 0 THEN <<>> ELSE s \o Repeat(s, n - 1)

\* how the names passed to clean_node_name begin
NamePrefixes ==
    { <<>>, <<"-">>, <<"_">>, <<" ">>, <<"a">>, <<"-", "1">>, <<"W", "a", "l", "l", ".">> }

\* the character their middle part repeats
RunChars == {"1", "a", "_"}

\* how they end
NameSuffixes == { <<>>, <<"a", "b", "c">>, <<"_">>, <<"-", "c">> }

\* the names passed to clean_node_name: material, model and node names
\* with a run of digits, letters or underscores of any length up to MaxRun
NodeNames ==
    { prefix \o Repeat(<<c>>, n) \o suffix :
         prefix \in NamePrefixes, c \in RunChars, n \in 0..MaxRun, suffix \in NameSuffixes }

clean_call_unchanged ==
    UNCHANGED <<texture_files, files_is_none, material_name, model_basename,
                texture_keywords, path, candidates, idx, found_textures,
                udim_groups, single_textures, udim_sequences, cache_vars>>

\* clean_node_name(name) is called (materials, models and nodes are named
\* through it); no CacheManager method and no texture matching runs
InitClean ==
    /\ enabled = FALSE
    /\ InitCacheManager
    /\ node_name \in NodeNames
    /\ cleaned_name = <<>>
    /\ texture_files = <<>>
    /\ files_is_none = FALSE
    /\ material_name = EmptyStr
    /\ model_basename = EmptyStr
    /\ texture_keywords = None
    /\ pc = "clean"
    /\ path = "none"
    /\ candidates = <<>>
    /\ idx = 1
    /\ found_textures = EmptyDict
    /\ udim_groups = <<>>
    /\ single_textures = <<>>
    /\ udim_sequences = <<>>

\* if not name: return "default_node"  (before and after the strip)
CleanEmpty ==
    /\ pc \in {"clean", "stripped"}
    /\ node_name = <<>>
    /\ cleaned_name' = default_node
    /\ pc' = "cleaned"
    /\ UNCHANGED node_name
    /\ clean_call_unchanged

\* name = str(name).strip()
CleanStrip ==
    /\ pc = "clean"
    /\ node_name # <<>>
    /\ node_name' = strip_chars(node_name, Whitespace)
    /\ pc' = "stripped"
    /\ UNCHANGED cleaned_name
    /\ clean_call_unchanged

\* cleaned_name = re.sub(r'[^a-zA-Z0-9_]', '_', name)
CleanSub ==
    /\ pc = "stripped"
    /\ node_name # <<>>
    /\ cleaned_name' = sub_non_word(node_name)
    /\ pc' = "prefix"
    /\ UNCHANGED node_name
    /\ clean_call_unchanged

\* if cleaned_name and cleaned_name[0].isdigit(): cleaned_name = 'n_' + cleaned_name
CleanDigitPrefix ==
    /\ pc = "prefix"
    /\ cleaned_name' = digit_prefix(cleaned_name)
    /\ pc' = "truncate"
    /\ UNCHANGED node_name
    /\ clean_call_unchanged

\* if len(cleaned_name) > 30: cleaned_name = cleaned_name[:30]
CleanTruncate ==
    /\ pc = "truncate"
    /\ cleaned_name' = truncate(cleaned_name)
    /\ pc' = "collapse"
    /\ UNCHANGED node_name
    /\ clean_call_unchanged

\* while '__' in cleaned_name: ...  (one iteration)
CleanCollapse ==
    /\ pc = "collapse"
    /\ Contains(cleaned_name, double_underscore)
    /\ cleaned_name' = replace_double_underscore(cleaned_name)
    /\ UNCHANGED <<pc, node_name>>
    /\ clean_call_unchanged

\* the while loop ends; cleaned_name = cleaned_name.strip('_')
CleanStripUnderscores ==
    /\ pc = "collapse"
    /\ ~Contains(cleaned_name, double_underscore)
    /\ cleaned_name' = strip_chars(cleaned_name, {"_"})
    /\ pc' = "default"
    /\ UNCHANGED node_name
    /\ clean_call_unchanged

\* if not cleaned_name or len(cleaned_name) < 2: cleaned_name = "default_node"
CleanDefault ==
    /\ pc = "default"
    /\ cleaned_name' = default_if_short(cleaned_name)
    /\ pc' = "isdigit"
    /\ UNCHANGED node_name
    /\ clean_call_unchanged

\* if cleaned_name.isdigit(): cleaned_name = f"node_{cleaned_name}"; return cleaned_name
CleanNodePrefix ==
    /\ pc = "isdigit"
    /\ cleaned_name' = node_prefix(cleaned_name)
    /\ pc' = "cleaned"
    /\ UNCHANGED node_name
    /\ clean_call_unchanged

NextClean ==
    \/ CleanEmpty \/ CleanStrip \/ CleanSub \/ CleanDigitPrefix
    \/ CleanTruncate \/ CleanCollapse \/ CleanStripUnderscores \/ CleanDefault
    \/ CleanNodePrefix

SpecClean == InitClean /\ [][NextClean]_vars

-----------------------------------------------------------------------------
(* Properties *)

\* s is t with some elements left out: the order of s is the order of t
RECURSIVE IsSubsequence(_, _)
IsSubsequence(s, t) ==
    IF Len(s) = 0 THEN TRUE
    ELSE IF Len(t) = 0 THEN FALSE
    ELSE IF Head(s) = Head(t) THEN IsSubsequence(Tail(s), Tail(t))
    ELSE IsSubsequence(s, Tail(t))

\* the candidates of a file list after UDIM collapsing
CollapsedCandidates(files) == udim_candidates(detect_udim_sequences(files))

\* the channels of a keyword table
Channels(items) == {items[k].channel : k \in 1..Len(items)}

\* the matching keywords of entry k of a table in text
MatchingKeywords(items, k, text) ==
    {kw \in Range(items[k].keywords) : Contains(text, kw)}

\* the channel owning the longest keyword that occurs in text, among the
\* channels not yet found: the first such channel in table order, NoType
\* when no keyword of an unassigned channel occurs
LongestKeywordChannel(items, text, found) ==
    LET open == {k \in 1..Len(items) :
                    /\ ~IsFound(found, items[k].channel)
                    /\ MatchingKeywords(items, k, text) # {}}
        longest(k) == CHOOSE n \in {Len(kw) : kw \in MatchingKeywords(items, k, text)} :
                         \A kw \in MatchingKeywords(items, k, text) : Len(kw) <= n
    IN  IF \A k \in open : longest(k) = 0 THEN NoType
        ELSE items[CHOOSE k \in open :
                      /\ \A j \in open : longest(j) <= longest(k)
                      /\ \A j \in open : longest(j) = longest(k) => k <= j].channel

\* a candidate's name contains a keyword of some channel of the table
HasKeyword(items, candidate) ==
    \E k \in 1..Len(items) : MatchingKeywords(items, k, candidate.kw_text) # {}

\* C1: when the candidate list after UDIM collapsing has exactly one
\* candidate (one file, or one UDIM sequence), find_matching_textures with a
\* non-empty material name returns exactly {BaseMap: that candidate's path}.
C1_SingleCandidateIsBaseMap ==
    (/\ pc = "done"
     /\ material_name # <<>>
     /\ Len(CollapsedCandidates(texture_files)) = 1)
    => found_textures =
         Assign(EmptyDict, "BaseMap", CollapsedCandidates(texture_files)[1].path)

\* C2: on either implementation, the primary pass classifies every candidate
\* that passes the base-name gate under the channel that owns the longest
\* matching keyword among the channels still unassigned (the first in table
\* order on equal length): the step about to run assigns that channel.
C2_LongestKeywordWins ==
    (/\ pc = "primary" /\ idx <= Len(candidates)
     /\ matches_base(search_bases(material_name, model_basename),
                     candidates[idx].base_text))
    => LET channel == LongestKeywordChannel(texture_keywords.items,
                          candidates[idx].kw_text, found_textures)
       IN  primary_step(path, texture_keywords.items,
                        search_bases(material_name, model_basename),
                        candidates[idx], found_textures)
           = IF channel = NoType THEN found_textures
             ELSE Assign(found_textures, channel, candidates[idx].path)

\* C3: the singles returned by detect_udim_sequences are in input order,
\* the files of groups below min_tiles included.
C3_SinglesPreserveInputOrder ==
    pc = "returned" => IsSubsequence(single_textures, texture_files)

\* C4: in every sequence detect_udim_sequences returns the tile numbers are
\* pairwise distinct, and its file list passes validate_udim_sequence
\* (stated for the input lists in which no path occurs twice).
C4_TileNumbersDistinct ==
    Distinct(texture_files) =>
    \A k \in 1..Len(udim_sequences) :
        /\ \A i, j \in 1..Len(udim_sequences[k].tiles) :
              i # j => udim_sequences[k].tiles[i] # udim_sequences[k].tiles[j]
        /\ validate_udim_sequence(udim_sequences[k].files)

\* C5: with material_name and model_basename both empty and two or more
\* candidates, the base-name gate is bypassed and the passes run: the result
\* is non-empty whenever some candidate contains a keyword.
C5_EmptyNamesBypassGate ==
    (/\ pc = "done"
     /\ material_name = <<>> /\ model_basename = <<>>
     /\ Len(CollapsedCandidates(texture_files)) >= 2
     /\ \E k \in 1..Len(CollapsedCandidates(texture_files)) :
           HasKeyword(texture_keywords.items, CollapsedCandidates(texture_files)[k]))
    => DOMAIN found_textures # {}

\* C6: every key of the returned mapping is a channel of the keyword table
\* the call works with.
C6_KeysAreTableChannels ==
    pc = "done" => DOMAIN found_textures \subseteq Channels(texture_keywords.items)

\* the tile files of the sequences detect_udim_sequences makes from files
SequenceTileFiles(files) ==
    LET sequences == detect_udim_sequences(files).udim_sequences
    IN  UNION {Range(sequences[k].files) : k \in 1..Len(sequences)}

\* C7: no value of the returned mapping is the raw path of a tile file of a
\* UDIM sequence that detect_udim_sequences materializes from the file list.
C7_NoRawTileOfSequence ==
    pc = "done" =>
        \A channel \in DOMAIN found_textures :
            found_textures[channel] \notin SequenceTileFiles(texture_files)

\* what detect_udim_sequences returns for a file list, up to order: the set
\* of singles and, per sequence, base name, tile set and pattern path
Membership(sequences, singles) ==
    [singles   |-> Range(singles),
     sequences |-> {[base_name |-> sequences[k].base_name,
                     tiles     |-> Range(sequences[k].tiles),
                     pattern   |-> sequences[k].pattern] : k \in 1..Len(sequences)}]

\* C8: detect_udim_sequences is order-independent in membership: every
\* permutation of the input list gives the same set of singles and the same
\* set of sequences (base name, tile set, pattern path); stated for the input
\* lists in which no path occurs twice.
C8_OrderIndependentMembership ==
    (pc = "returned" /\ Distinct(texture_files)) =>
        \A p \in Permutations(1..Len(texture_files)) :
            LET permuted == [i \in 1..Len(texture_files) |-> texture_files[p[i]]]
                result   == detect_udim_sequences(permuted)
            IN  Membership(result.udim_sequences, result.single_textures)
                = Membership(udim_sequences, single_textures)

\* the scan of texture_files took the file into a group of udim_groups
AcceptedAsTile(file) ==
    \E k \in 1..Len(udim_groups) :
        \E t \in 1..Len(udim_groups[k].tiles) : udim_groups[k].tiles[t].file = file

\* the scan of texture_files is over
ScanOver == path = "detect" /\ pc \in {"build", "returned"}

\* C9 (as claimed): with the default configuration a pattern-matching file is
\* accepted as a UDIM tile exactly when its number n satisfies
\* 1001 <= n <= 1999, and goes to singles because of its number otherwise.
C9_DefaultRange1001To1999 ==
    ScanOver =>
        \A i \in 1..Len(texture_files) :
            LET match == udim_pattern_match(basename(texture_files[i]))
            IN  match.matched =>
                  (AcceptedAsTile(texture_files[i])
                     <=> (1001 <= match.udim /\ match.udim <= 1999))

\* C9 (amended): with the default configuration a pattern-matching file is
\* accepted as a UDIM tile exactly when its number n satisfies
\* 1001 <= n <= 1100; a pattern-matching file with n outside 1001-1100 (1101
\* and 1102 included) is not taken into a group and is among the singles.
C9_DefaultRange1001To1100 ==
    ScanOver =>
        \A i \in 1..Len(texture_files) :
            LET match == udim_pattern_match(basename(texture_files[i]))
            IN  match.matched =>
                  /\ AcceptedAsTile(texture_files[i])
                       <=> (1001 <= match.udim /\ match.udim <= 1100)
                  /\ ~AcceptedAsTile(texture_files[i])
                       => texture_files[i] \in Range(single_textures)

\* C9 witness: a call has returned that took tiles 1001 and 1100 of one base
\* name into a sequence and sent the pattern-matching file numbered 1101 to
\* the singles
C9_Witness ==
    /\ pc = "returned"
    /\ \E k \in 1..Len(udim_sequences) : udim_sequences[k].tiles = <<1001, 1100>>
    /\ \E i \in 1..Len(texture_files) :
          /\ udim_pattern_match(basename(texture_files[i])).udim = 1101
          /\ texture_files[i] \in Range(single_textures)
          /\ ~AcceptedAsTile(texture_files[i])

\* the tile files of the input that carry the base name of file number i, by
\* the primary pattern or else the first alternative pattern that matches
RECURSIVE first_alternative_match(_, _)
first_alternative_match(filename, k) ==
    IF k > Len(alternative_patterns) THEN NoMatch
    ELSE IF regex_match(filename, alternative_patterns[k]).matched
         THEN regex_match(filename, alternative_patterns[k])
         ELSE first_alternative_match(filename, k + 1)

AnySeparatorMatch(filename) ==
    IF udim_pattern_match(filename).matched THEN udim_pattern_match(filename)
    ELSE first_alternative_match(filename, 1)

\* C10: a tile file name is recognized with each of the separators '.', '_'
\* and '-' (primary pattern first, then the alternative patterns), as
\* is_udim_filename does: in-range tile files that are at least min_tiles of
\* one base name are collapsed into a sequence and are not singles.
C10_AlternativeSeparatorsRecognized ==
    pc = "returned" =>
        \A i \in 1..Len(texture_files) :
            LET match == AnySeparatorMatch(basename(texture_files[i]))
                same  == {j \in 1..Len(texture_files) :
                            LET other == AnySeparatorMatch(basename(texture_files[j]))
                            IN  /\ other.matched /\ in_range(other.udim)
                                /\ other.base_name = match.base_name}
            IN  (/\ is_udim_filename(basename(texture_files[i]))
                 /\ in_range(match.udim)
                 /\ Cardinality(same) >= min_tiles)
                => /\ \E k \in 1..Len(udim_sequences) :
                         texture_files[i] \in Range(udim_sequences[k].files)
                   /\ texture_files[i] \notin Range(single_textures)

\* C11: within one call of find_matching_textures, on either path, once a
\* channel has been given a path no later step (a later candidate of the
\* primary pass, the aggressive pass, the terminal fallback) changes or
\* removes that channel's path.
C11_AssignedChannelKeepsPath ==
    [][\A channel \in DOMAIN found_textures :
          /\ channel \in DOMAIN found_textures'
          /\ found_textures'[channel] = found_textures[channel]]_vars

\* a call has ended in which a channel went to one candidate and a later
\* candidate carrying a keyword of the same channel was processed after it
C11_Witness ==
    /\ pc = "done"
    /\ \E i, j \in 1..Len(candidates), k \in 1..Len(texture_keywords.items) :
          /\ i < j
          /\ IsFound(found_textures, texture_keywords.items[k].channel)
          /\ found_textures[texture_keywords.items[k].channel] = candidates[i].path
          /\ candidates[j].path # candidates[i].path
          /\ MatchingKeywords(texture_keywords.items, k, candidates[j].kw_text) # {}
          /\ \/ Cardinality(search_bases(material_name, model_basename)) = 0
             \/ matches_base(search_bases(material_name, model_basename),
                             candidates[j].base_text)

\* a file's name as the matching reads it: lower-cased, without directory
\* and extension
NameOf(file) == lower(splitext_root(basename(file)))

\* the channels of a table one of whose keywords occurs in the file's name
KeywordChannelsOf(items, file) ==
    {items[k].channel : k \in {j \in 1..Len(items) :
                                  MatchingKeywords(items, j, NameOf(file)) # {}}}

\* two or more files, none UDIM-named, each naming the material and the
\* keywords of exactly one channel, a different channel per file
OneChannelPerFile(material, files, items) ==
    /\ material # <<>>
    /\ Len(files) >= 2
    /\ \A i \in 1..Len(files) :
          /\ ~quick_check_match(basename(files[i])).matched
          /\ Contains(NameOf(files[i]), replace_space(lower(material)))
          /\ Cardinality(KeywordChannelsOf(items, files[i])) = 1
    /\ \A i, j \in 1..Len(files) :
          i # j => KeywordChannelsOf(items, files[i]) # KeywordChannelsOf(items, files[j])

\* C12: for a non-empty material name m and two or more files, none
\* UDIM-named, each of whose names contains m and keywords of exactly one
\* channel, a different channel per file, find_matching_textures maps each of
\* those channels to its file and has no other keys; crate_diff.jpg,
\* crate_normal.jpg, crate_rough.jpg with material crate and the default
\* table give BaseMap, Normal and Roughness.
C12_OneChannelPerFile ==
    /\ (pc = "done" /\ OneChannelPerFile(material_name, texture_files, texture_keywords.items))
       => /\ DOMAIN found_textures =
               UNION {KeywordChannelsOf(texture_keywords.items, texture_files[i]) :
                         i \in 1..Len(texture_files)}
          /\ \A i \in 1..Len(texture_files) :
                \A channel \in KeywordChannelsOf(texture_keywords.items, texture_files[i]) :
                   found_textures[channel] = texture_files[i]
    /\ (/\ pc = "done"
        /\ material_name = mat_crate
        /\ texture_files = <<crate_diff_jpg, crate_normal_jpg, crate_rough_jpg>>
        /\ texture_keywords = Table(ENHANCED_TEXTURE_KEYWORDS))
       => found_textures = [channel \in {"BaseMap", "Normal", "Roughness"} |->
                               CASE channel = "BaseMap" -> crate_diff_jpg
                                 [] channel = "Normal" -> crate_normal_jpg
                                 [] channel = "Roughness" -> crate_rough_jpg]

\* the crate call has returned, and its three files meet the precondition
C12_Witness ==
    /\ pc = "done"
    /\ material_name = mat_crate
    /\ texture_files = <<crate_diff_jpg, crate_normal_jpg, crate_rough_jpg>>
    /\ texture_keywords = Table(ENHANCED_TEXTURE_KEYWORDS)
    /\ OneChannelPerFile(material_name, texture_files, texture_keywords.items)

\* C13: for every non-empty material name and every list holding exactly one
\* file path, find_matching_textures returns exactly {BaseMap: that path},
\* whatever the file name holds (no keyword, a keyword of another channel, a
\* UDIM-looking name, no occurrence of the material name).
C13_SingleFileIsBaseMap ==
    (/\ pc = "done"
     /\ material_name # <<>>
     /\ ~files_is_none
     /\ Len(texture_files) = 1)
    => found_textures = [channel \in {"BaseMap"} |-> texture_files[1]]

\* a one-file call has returned whose file is UDIM-looking, carries a keyword
\* of a channel other than BaseMap and does not name the material
C13_Witness ==
    /\ pc = "done"
    /\ material_name = mat_metal
    /\ texture_files = <<wall_normal_1001>>
    /\ quick_check_match(basename(texture_files[1])).matched
    /\ KeywordChannelsOf(texture_keywords.items, texture_files[1]) = {"Normal"}
    /\ ~Contains(NameOf(texture_files[1]), lower(material_name))

\* the positions of the input list holding an in-range tile of a base name
InRangeTiles(files, base_name) ==
    {i \in 1..Len(files) :
        LET match == udim_pattern_match(basename(files[i]))
        IN  /\ match.matched
            /\ match.base_name = base_name
            /\ 1001 <= match.udim /\ match.udim <= 1100}

\* the base names of the pattern-matching files of the input list
BaseNames(files) ==
    {udim_pattern_match(basename(files[i])).base_name :
        i \in {j \in 1..Len(files) : udim_pattern_match(basename(files[j])).matched}}

\* the sequences emitted for a base name
SequencesOf(base_name) ==
    {k \in 1..Len(udim_sequences) : udim_sequences[k].base_name = base_name}

\* C14: min_tiles = 2 is an inclusive threshold: a base name with exactly 2
\* in-range tiles is emitted as one UDIM sequence whose files are absent from
\* singles; a base name with exactly 1 in-range tile yields no sequence and
\* its file appears in singles.
C14_MinTilesInclusive ==
    pc = "returned" =>
      \A base_name \in BaseNames(texture_files) :
         LET positions == InRangeTiles(texture_files, base_name)
         IN  /\ Cardinality(positions) = 2 =>
                  /\ Cardinality(SequencesOf(base_name)) = 1
                  /\ \A k \in SequencesOf(base_name) :
                        Range(udim_sequences[k].files) = {texture_files[i] : i \in positions}
                  /\ \A i \in positions : texture_files[i] \notin Range(single_textures)
             /\ Cardinality(positions) = 1 =>
                  /\ SequencesOf(base_name) = {}
                  /\ \A i \in positions : texture_files[i] \in Range(single_textures)

\* a call has returned whose list held exactly 2 in-range tiles of one base
\* name and exactly 1 in-range tile of another
C14_Witness ==
    /\ pc = "returned"
    /\ \E b2, b1 \in BaseNames(texture_files) :
          /\ Cardinality(InRangeTiles(texture_files, b2)) = 2
          /\ Cardinality(InRangeTiles(texture_files, b1)) = 1
          /\ min_tiles = 2

\* C15: in every sequence of detect_udim_sequences, tile_count equals the
\* number of tile numbers and the number of member files, tile_count is at
\* least min_tiles, the tile numbers are listed in ascending order (no tile
\* number is followed by a smaller one), and every tile number lies within
\* the configured range [range_start, range_end].
C15_SequenceInvariants ==
    \A k \in 1..Len(udim_sequences) :
       LET sequence == udim_sequences[k]
       IN  /\ sequence.tile_count = Len(sequence.tiles)
           /\ sequence.tile_count = Len(sequence.files)
           /\ sequence.tile_count >= min_tiles
           /\ \A i, j \in 1..Len(sequence.tiles) :
                 i < j => sequence.tiles[i] <= sequence.tiles[j]
           /\ \A i \in 1..Len(sequence.tiles) :
                 range_start <= sequence.tiles[i] /\ sequence.tiles[i] <= range_end

\* a call has returned a sequence whose tiles stood in descending order in
\* the input list
C15_Witness ==
    /\ pc = "returned"
    /\ \E k \in 1..Len(udim_sequences), i, j \in 1..Len(texture_files) :
          /\ i < j
          /\ texture_files[i] \in Range(udim_sequences[k].files)
          /\ texture_files[j] \in Range(udim_sequences[k].files)
          /\ udim_pattern_match(basename(texture_files[i])).udim
               > udim_pattern_match(basename(texture_files[j])).udim

\* the part of a tile's or a pattern's file name between the base name with
\* its separator and the dot of the extension
TileSlot(name, base_name, extension) ==
    SubSeq(name, Len(base_name) + 2, Len(name) - Len(extension) - 1)

\* s starts with prefix / ends with suffix
StartsWith(s, prefix) == Len(prefix) <= Len(s) /\ SubSeq(s, 1, Len(prefix)) = prefix
EndsWith(s, suffix) ==
    Len(suffix) <= Len(s) /\ SubSeq(s, Len(s) - Len(suffix) + 1, Len(s)) = suffix

\* C16: the pattern path of every sequence of detect_udim_sequences has the
\* form <dir>/<base_name>.<UDIM>.<ext>, with the directory and extension of
\* the sequence's first tile: the placeholder stands exactly where the tile
\* number stood in the tile's name, no 4-digit number stands there,
\* is_udim_texture(pattern) is true, and is_udim_texture is false for every
\* raw tile path that does not hold the placeholder.
C16_PatternPathForm ==
    \A k \in 1..Len(udim_sequences) :
       LET sequence  == udim_sequences[k]
           first     == sequence.files[1]
           tile_name == basename(first)
           extension == udim_pattern_match(tile_name).extension
           name      == basename(sequence.pattern)
       IN  /\ name = sequence.base_name \o <<".">> \o placeholder \o <<".">> \o extension
           /\ IF dirname(first) = <<>> THEN sequence.pattern = name
              ELSE sequence.pattern = normpath(dirname(first)) \o <<"/">> \o name
           /\ \A i \in 1..Len(sequence.files) :
                 LET tile == basename(sequence.files[i])
                     ext  == udim_pattern_match(tile).extension
                 IN  /\ StartsWith(tile, sequence.base_name)
                     /\ EndsWith(tile, <<".">> \o ext)
                     /\ Len(TileSlot(tile, sequence.base_name, ext)) = 4
                     /\ \A d \in 1..4 :
                           IsDigit(TileSlot(tile, sequence.base_name, ext)[d])
           /\ TileSlot(name, sequence.base_name, extension) = placeholder
           /\ \E d \in 1..4 : ~IsDigit(TileSlot(name, sequence.base_name, extension)[d])
           /\ is_udim_texture(sequence.pattern)
           /\ \A i \in 1..Len(sequence.files) :
                 ~Contains(sequence.files[i], placeholder)
                    => ~is_udim_texture(sequence.files[i])

\* a call has returned a sequence whose first tile lies in a directory and
\* one of whose tiles has the separator "_"
C16_Witness ==
    /\ pc = "returned"
    /\ \E k \in 1..Len(udim_sequences) :
          /\ dirname(udim_sequences[k].files[1]) # <<>>
          /\ \E i \in 1..Len(udim_sequences[k].files) :
                basename(udim_sequences[k].files[i])[Len(udim_sequences[k].base_name) + 1] = "_"

\* C17: detect_udim_sequences returns a result without raising for every
\* list of strings, however malformed the file names (such a call is always
\* in one of its two loops, within the list it iterates, or has returned a
\* result that accounts for every file), and it ends in an error, Python's
\* TypeError for the invalid argument, exactly when the input list is None.
C17_RaisesOnlyOnNone ==
    /\ pc = "TypeError" => files_is_none
    /\ pc = "returned" => ~files_is_none
    /\ pc \in {"scan", "build", "returned", "TypeError"}
    /\ pc = "scan" => idx \in 1..(Len(texture_files) + 1)
    /\ pc = "build" => idx \in 1..(Len(udim_groups) + 1)
    /\ pc = "returned" =>
          Len(single_textures)
            + Cardinality({<<k, i>> \in (1..Len(udim_sequences)) \X (1..Len(texture_files)) :
                              i <= udim_sequences[k].tile_count})
          = Len(texture_files)

\* the call with texture_files = None has ended in the TypeError
C17_Witness ==
    /\ files_is_none
    /\ pc = "TypeError"

\* the positions of a call of find_matching_textures: all of them are steps
\* of the search or the return of the mapping, none is an error
CallPositions == {"call", "primary", "aggressive", "fallback", "done"}

\* C18 as claimed: find_matching_textures called with texture_files = None
\* or texture_keywords = None ends in an InvalidArgument error instead of
\* returning a mapping (so no step of such a call continues the search or
\* returns); every other input yields a mapping without raising.
C18_NoneParameterRaises ==
    [][/\ (pc = "call" /\ (files_is_none \/ texture_keywords.none))
             => pc' \notin CallPositions
       /\ (pc = "call" /\ ~(files_is_none \/ texture_keywords.none))
             => pc' \in CallPositions]_vars

\* C18: find_matching_textures never ends in an error for a None parameter:
\* called with texture_files = None it returns the empty mapping, called
\* with texture_keywords = None it searches with the default table
\* ENHANCED_TEXTURE_KEYWORDS; these and every other input yield a (possibly
\* empty or partial) mapping without raising.
C18_NoneParameterDefaults ==
    [][/\ (pc = "call" /\ files_is_none)
             => (pc' = "done" /\ found_textures' = EmptyDict)
       /\ (pc = "call" /\ texture_keywords.none)
             => texture_keywords' = Table(ENHANCED_TEXTURE_KEYWORDS)
       /\ pc' \in CallPositions
       /\ pc' = "done" => DOMAIN found_textures' \subseteq Channels(texture_keywords'.items) \cup {"BaseMap"}]_vars

\* a call with texture_files = None and texture_keywords = None has returned
\* the empty mapping
C18_Witness ==
    /\ pc = "done"
    /\ files_is_none
    /\ material_name # <<>>
    /\ texture_keywords = Table(ENHANCED_TEXTURE_KEYWORDS)
    /\ found_textures = EmptyDict

\* C19: on an enabled CacheManager the non-reentrant lock self._lock is
\* never requested by a thread that already holds it (so every call of
\* set_material_path, update_material_cache, clear_cache, get_clean_node_name
\* and find_matching_textures returns), and no thread holds the lock once
\* its call has ended.
C19_LockNeverRequestedByHolder ==
    enabled =>
      \A t \in Threads :
         /\ At(t, "acquire") => lock # t
         /\ ~Running(t) => lock # t

\* the whole-call functions and the stepwise call agree
CallIsImplementation ==
    pc = "done" /\ path # "none" =>
       found_textures =
          IF path = "udim"
          THEN find_matching_textures_with_udim(material_name, texture_files,
                   texture_keywords.items, model_basename)
          ELSE find_matching_textures_standard(material_name, texture_files,
                   texture_keywords.items, model_basename)

\* C20: for every non-empty material name, keyword table and file list from
\* which detect_udim_sequences materializes no sequence,
\* find_matching_textures_with_udim and _find_matching_textures_standard
\* return the same mapping, so the result of find_matching_textures does not
\* depend on which of the two its dispatch test selects.
C20_ImplementationsAgree ==
    (/\ pc = "done"
     /\ material_name # <<>>
     /\ ~files_is_none
     /\ detect_udim_sequences(texture_files).udim_sequences = <<>>)
    => /\ find_matching_textures_with_udim(material_name, texture_files,
              texture_keywords.items, model_basename)
          = find_matching_textures_standard(material_name, texture_files,
              texture_keywords.items, model_basename)
       /\ found_textures
          = find_matching_textures_standard(material_name, texture_files,
              texture_keywords.items, model_basename)

\* the four decimal digits of a tile number
TileDigits(n) ==
    LET digit(d) == CHOOSE c \in {"0","1","2","3","4","5","6","7","8","9"} : DigitValue[c] = d
    IN  <<digit(n \div 1000), digit((n \div 100) % 10), digit((n \div 10) % 10), digit(n % 10)>>

\* the path a pattern stands for at a tile: the placeholder replaced by the
\* tile number
ResolveTile(pattern, n) ==
    LET at == CHOOSE i \in 1..Len(pattern) :
                 /\ SubSeq(pattern, i, i + Len(placeholder) - 1) = placeholder
                 /\ \A j \in 1..(i - 1) :
                       SubSeq(pattern, j, j + Len(placeholder) - 1) # placeholder
    IN  SubSeq(pattern, 1, at - 1) \o TileDigits(n)
           \o SubSeq(pattern, at + Len(placeholder), Len(pattern))

\* C21: for every sequence of detect_udim_sequences, replacing the
\* placeholder in its pattern path by any tile number of the sequence yields
\* the path of a member file of that sequence, for tiles written with "."
\* and with "_", and when files of one base name lie in different
\* directories.
C21_PatternResolvesToMembers ==
    \A k \in 1..Len(udim_sequences) :
       \A i \in 1..Len(udim_sequences[k].tiles) :
          ResolveTile(udim_sequences[k].pattern, udim_sequences[k].tiles[i])
             \in Range(udim_sequences[k].files)

\* the extension a path ends in
ExtensionOf(p) == SubSeq(p, LastIndexOf(p, ".") + 1, Len(p))

\* the tile number of the file at position i of the input list
TileAt(files, i) == udim_pattern_match(basename(files[i])).udim

\* the first file of a base name's group in the input list
FirstEncountered(files, base_name) ==
    files[CHOOSE i \in InRangeTiles(files, base_name) :
             \A j \in InRangeTiles(files, base_name) : i <= j]

\* the lowest-numbered tile of a base name's group (the first of them in the
\* input list when the number repeats)
LowestNumbered(files, base_name) ==
    files[CHOOSE i \in InRangeTiles(files, base_name) :
             \A j \in InRangeTiles(files, base_name) :
                \/ TileAt(files, i) < TileAt(files, j)
                \/ TileAt(files, i) = TileAt(files, j) /\ i <= j]

\* one group per base name, whatever the extensions: a base name has at most
\* one sequence, and it holds all the in-range tiles of that name
KeyedByBaseName ==
    \A k \in 1..Len(udim_sequences) :
       /\ SequencesOf(udim_sequences[k].base_name) = {k}
       /\ Range(udim_sequences[k].files)
            = {texture_files[i] : i \in InRangeTiles(texture_files, udim_sequences[k].base_name)}

\* C22 as claimed: when the tiles of one base name carry different
\* extensions, detect_udim_sequences builds one group keyed by the base name
\* alone and its pattern path uses the extension of the first file of that
\* group in the input list.
C22_ExtensionOfFirstEncountered ==
    pc = "returned" =>
       /\ KeyedByBaseName
       /\ \A k \in 1..Len(udim_sequences) :
             ExtensionOf(udim_sequences[k].pattern)
                = ExtensionOf(FirstEncountered(texture_files, udim_sequences[k].base_name))

\* C22: when the tiles of one base name carry different extensions,
\* detect_udim_sequences builds one group keyed by the base name alone and
\* its pattern path uses the extension of the lowest-numbered tile of that
\* group (of the first such tile in the input list when the number repeats).
C22_ExtensionOfLowestNumbered ==
    pc = "returned" =>
       /\ KeyedByBaseName
       /\ \A k \in 1..Len(udim_sequences) :
             ExtensionOf(udim_sequences[k].pattern)
                = ExtensionOf(LowestNumbered(texture_files, udim_sequences[k].base_name))

\* a call has returned a sequence whose first file in the input list and
\* whose lowest-numbered tile carry different extensions
C22_Witness ==
    /\ pc = "returned"
    /\ \E k \in 1..Len(udim_sequences) :
          ExtensionOf(FirstEncountered(texture_files, udim_sequences[k].base_name))
             # ExtensionOf(LowestNumbered(texture_files, udim_sequences[k].base_name))

\* the positions in the input list of the file(s) of a candidate: of the
\* tiles of its sequence, or of the single file
CandidatePositions(candidate) ==
    IF candidate.type = "udim"
    THEN {i \in 1..Len(texture_files) :
             \E k \in 1..Len(udim_sequences) :
                /\ udim_sequences[k].pattern = candidate.path
                /\ texture_files[i] \in Range(udim_sequences[k].files)}
    ELSE {i \in 1..Len(texture_files) : texture_files[i] = candidate.path}

\* candidate a's file(s) occur in the input list before candidate b's
OccursEarlier(a, b) ==
    \E i \in CandidatePositions(a) : \A j \in CandidatePositions(b) : i < j

\* the candidate passes the base-name gate
PassesGate(candidate) ==
    \/ Cardinality(search_bases(material_name, model_basename)) = 0
    \/ matches_base(search_bases(material_name, model_basename), candidate.base_text)

\* C23: candidates are tried in input order: when two candidates both pass
\* the base-name gate and both have the same channel as their best keyword
\* match, find_matching_textures assigns the channel to the one whose
\* file(s) occur earlier in the input list, whether the candidates are
\* single files, degraded under-threshold tiles or UDIM sequences.
C23_EarlierCandidateWins ==
    pc = "done" =>
       \A a, b \in 1..Len(candidates) :
          (/\ a # b
           /\ PassesGate(candidates[a])
           /\ PassesGate(candidates[b])
           /\ primary_type(path, texture_keywords.items, candidates[a], EmptyDict) # NoType
           /\ primary_type(path, texture_keywords.items, candidates[a], EmptyDict)
                = primary_type(path, texture_keywords.items, candidates[b], EmptyDict)
           /\ OccursEarlier(candidates[a], candidates[b]))
          => LET channel == primary_type(path, texture_keywords.items, candidates[a], EmptyDict)
             IN  /\ IsFound(found_textures, channel)
                 /\ found_textures[channel] = candidates[a].path

\* the candidate's lower-cased name contains one of the search bases
NamesASearchBase(candidate) ==
    \E base \in search_bases(material_name, model_basename) :
       \E i \in 1..(Len(candidate.base_text) - Len(base) + 1) :
          SubSeq(candidate.base_text, i, i + Len(base) - 1) = base

\* the primary pass of the call assigned at least one channel
PrimaryAssigned ==
    DOMAIN primary_loop(path, texture_keywords.items,
                        search_bases(material_name, model_basename),
                        candidates, 1, EmptyDict) # {}

\* C24: the aggressive keyword-only pass runs only if the primary pass
\* assigned no channel at all: whenever the primary pass assigned at least
\* one channel, every path in the result belongs to a candidate whose
\* lower-cased name contains one of the search bases, and keyword-matching
\* candidates that fail the base-name gate stay out of the result even
\* though their channels remain unassigned.  (Stated where the aggressive
\* pass is entered and where the call has returned.)
C24_AggressiveOnlyAfterEmptyPrimary ==
    /\ (pc = "aggressive" /\ idx = 1) => ~PrimaryAssigned
    /\ (pc = "done" /\ found_textures # EmptyDict /\ PrimaryAssigned) =>
          /\ \A channel \in DOMAIN found_textures :
                \E i \in 1..Len(candidates) :
                   /\ candidates[i].path = found_textures[channel]
                   /\ NamesASearchBase(candidates[i])
          /\ \A i \in 1..Len(candidates) :
                ~NamesASearchBase(candidates[i]) =>
                   \A channel \in DOMAIN found_textures :
                      found_textures[channel] # candidates[i].path

\* a call has returned in which the primary pass assigned a channel and a
\* candidate with a keyword of a channel left unassigned failed the gate
C24_Witness ==
    /\ pc = "done"
    /\ PrimaryAssigned
    /\ \E i \in 1..Len(candidates), k \in 1..Len(texture_keywords.items) :
          /\ ~NamesASearchBase(candidates[i])
          /\ MatchingKeywords(texture_keywords.items, k, candidates[i].kw_text) # {}
          /\ ~IsFound(found_textures, texture_keywords.items[k].channel)

\* no file of the list has a keyword of the table in its name
NoKeywordInAnyName(files, items) ==
    \A i \in 1..Len(files) : KeywordChannelsOf(items, files[i]) = {}

\* the path of the first candidate in iteration order: the first file on the
\* standard path; the first sequence's pattern, else the first single
\* texture, on the UDIM path
FirstCandidatePath ==
    IF path = "udim"
    THEN IF udim_sequences # <<>> THEN udim_sequences[1].pattern ELSE single_textures[1]
    ELSE texture_files[1]

\* C25: terminal fallback: if material_name and texture_files are non-empty
\* and no candidate name contains any keyword (so neither the primary nor
\* the aggressive pass assigns a channel), the result is exactly {BaseMap: p}
\* with p the path of the first candidate in iteration order; hence the
\* result is never empty for a non-empty material name and file list.
C25_TerminalFallback ==
    (pc = "done" /\ material_name # <<>> /\ texture_files # <<>>) =>
       /\ DOMAIN found_textures # {}
       /\ NoKeywordInAnyName(texture_files, texture_keywords.items)
             => found_textures = [channel \in {"BaseMap"} |-> FirstCandidatePath]

\* a call over two or more files without any keyword has returned after
\* both passes
C25_Witness ==
    /\ pc = "done"
    /\ material_name # <<>>
    /\ Len(texture_files) >= 2
    /\ Len(candidates) >= 2
    /\ NoKeywordInAnyName(texture_files, texture_keywords.items)
    /\ DOMAIN found_textures = {"BaseMap"}

\* the file list of the call is pairwise distinct and holds no placeholder
DistinctPlaceholderFree(files) ==
    /\ Distinct(files)
    /\ \A i \in 1..Len(files) : ~Contains(files[i], placeholder)

\* no path stands under two channels of the mapping
Injective(found) ==
    \A c1, c2 \in DOMAIN found : found[c1] = found[c2] => c1 = c2

\* C27: the mapping of find_matching_textures never gives the same path to
\* two different channels, for every input list whose paths are pairwise
\* distinct and hold no '<UDIM>' placeholder: each candidate is assigned to
\* at most one channel across the primary pass, the aggressive pass and the
\* terminal fallback.
C27_NoPathUnderTwoChannels ==
    DistinctPlaceholderFree(texture_files) =>
       /\ Injective(found_textures)
       /\ pc \in {"primary", "aggressive", "fallback", "done"} =>
             Distinct([i \in 1..Len(candidates) |-> candidates[i].path])

\* a call has returned two or more channels, and one of its assigned files
\* holds keywords of two channels
C27_Witness ==
    /\ pc = "done"
    /\ DistinctPlaceholderFree(texture_files)
    /\ Cardinality(DOMAIN found_textures) >= 2
    /\ \E channel \in DOMAIN found_textures : \E i \in 1..Len(texture_files) :
          /\ found_textures[channel] = texture_files[i]
          /\ Cardinality(KeywordChannelsOf(texture_keywords.items, texture_files[i])) >= 2

\* how often x occurs in the list s
Occurrences(x, s) == Cardinality({i \in 1..Len(s) : s[i] = x})

\* how often x occurs in the 'files' of the sequences
RECURSIVE OccurrencesInSequences(_, _)
OccurrencesInSequences(x, sequences) ==
    IF sequences = <<>> THEN 0
    ELSE Occurrences(x, Head(sequences).files)
         + OccurrencesInSequences(x, Tail(sequences))

\* every path of the input or of the output
PathsOfCall ==
    {texture_files[i] : i \in 1..Len(texture_files)}
    \cup {single_textures[i] : i \in 1..Len(single_textures)}
    \cup UNION {{udim_sequences[k].files[i] : i \in 1..Len(udim_sequences[k].files)} :
                   k \in 1..Len(udim_sequences)}

\* the places of the output that hold x: "single" or the position of a sequence
PlacesOf(x) ==
    {k \in 1..Len(udim_sequences) : Occurrences(x, udim_sequences[k].files) > 0}
    \cup (IF Occurrences(x, single_textures) > 0 THEN {"single"} ELSE {})

\* C28: detect_udim_sequences partitions its input: every element of the
\* input list, counted with multiplicity, occurs exactly once in the output,
\* either in the 'files' of exactly one sequence or in single_textures, and
\* nothing else occurs there; hence get_udim_statistics reports
\* udim_tiles + single_textures = total_files.
C28_DetectPartitionsInput ==
    (path = "detect" /\ pc = "returned") =>
       /\ \A x \in PathsOfCall :
             /\ Occurrences(x, texture_files)
                   = Occurrences(x, single_textures)
                     + OccurrencesInSequences(x, udim_sequences)
             /\ Cardinality(PlacesOf(x)) = 1
       /\ LET statistics == get_udim_statistics(texture_files)
          IN  /\ statistics.udim_tiles + statistics.single_textures
                    = statistics.total_files
              /\ statistics.total_files = Len(texture_files)
              /\ statistics.udim_sequences = Len(udim_sequences)
              /\ statistics.single_textures = Len(single_textures)

\* a call over a list with a repeated path has returned a sequence and a
\* single texture
C28_Witness ==
    /\ path = "detect" /\ pc = "returned"
    /\ ~Distinct(texture_files)
    /\ udim_sequences # <<>>
    /\ single_textures # <<>>

\* a call of CacheManager.find_matching_textures that has returned gave the
\* mapping of material_utils.find_matching_textures for its own arguments
ReturnedMappingIsOwn ==
    (path = "cache" /\ pc = "returned") =>
       found_textures = find_matching_textures(material_name, texture_files,
                                               texture_keywords, model_basename)

\* C26: after any sequence of CacheManager.find_matching_textures calls on an
\* enabled cache whose cached paths all exist on disk, each call returns the
\* mapping material_utils.find_matching_textures returns for that call's own
\* arguments (two calls share a cache entry only if their material_name,
\* model_basename and ordered texture_files are equal): no call stays
\* blocked, and a returned mapping is the one of the call's arguments.
C26_CachedCallReturnsOwnMapping ==
    /\ path = "cache" => pc # "blocked"
    /\ ReturnedMappingIsOwn
\* C29: for every input, the name clean_node_name returns is non-empty,
\* holds only characters of [a-zA-Z0-9_] and does not start with a digit
\* (also for inputs that start with an underscore or another replaced
\* character followed by a digit, such as '-1abc').
C29_CleanNameIsIdentifier ==
    pc = "cleaned" =>
       /\ cleaned_name # <<>>
       /\ \A i \in 1..Len(cleaned_name) : cleaned_name[i] \in WordChars
       /\ ~IsDigit(cleaned_name[1])

\* C30: for every input, the name clean_node_name returns is at most 30
\* characters long (LIMITS['max_node_name_length']), also for inputs that
\* reduce to a string of digits and receive the 'node_' prefix after the
\* truncation.
C30_CleanNameWithinLimit ==
    pc = "cleaned" => Len(cleaned_name) <= max_node_name_length

====
